---------------------------- MODULE Spec2Model ----------------------------
(***************************************************************************)
(* Two-pass assembler for a 10-bit word machine: macro preprocessor,       *)
(* first pass, second pass and the driver that chains them for one source  *)
(* file.  Every definition is a transcription of the C function named in   *)
(* the comment above it.                                                   *)
(***************************************************************************)
EXTENDS Integers, Sequences, FiniteSets, TLC

(***************************************************************************)
(* Bounds of the model.                                                    *)
(***************************************************************************)
\* longest source file (in lines) of the preprocessor specification
MaxSrcLines == 5
\* longest source file (in lines) of the assembly specification
MaxAsmLines == 3
\* longest source file (in lines) of the whole-pipeline specification
MaxRunLines == 4
\* most stop lines in front of the instruction of the encoding specification
MaxStopLines == 2
\* most lines of a source file of the data specification
MaxDataLines == 3
\* MEMORY_AVAILABLE_SPACE of config.h, scaled down so that a source can fill it
MEMORY_AVAILABLE_SPACE == 5

(***************************************************************************)
(* Configuration constants (config.h).  The header is not among the        *)
(* sources; the values are the ones the specification gives for the word   *)
(* layout and the load address.                                            *)
(***************************************************************************)
MEMORY_ADDRESS_OFFSET == 100
EXTERNAL_TEMP_ADDR == 0
WORD_MODULUS == 1024
OPCODE_BITS_SHIFT == 6
SRC_ADDR_MODE_BITS_SHIFT == 4
DEST_ADDR_MODE_BITS_SHIFT == 2
OPERAND_DATA_BITS_SHIFT == 2
OPERAND_DATA_SRC_REG_SHIFT == 6
OPERAND_DATA_DEST_REG_SHIFT == 2
OPERAND_DATA_MAX == 127
OPERAND_DATA_MIN == -128
OPERAND_DATA_UMAX == 255
WORD_MAX == 511
WORD_MIN == -512

Pow2(n) == IF n = 0 THEN 1 ELSE IF n = 2 THEN 4 ELSE IF n = 4 THEN 16 ELSE 64
\* v << s, kept to the 10 bits of a machine word (& WORD_BIT_MASK)
ShiftWord(v, s) == (v * Pow2(s)) % WORD_MODULUS

(***************************************************************************)
(* instructions.h: encoding_type, addr_Mode, addr_mode_group               *)
(***************************************************************************)
ABSOLUTE == 0
EXTERNAL == 1
RELOCATABLE == 2
UNKNOWN == 3

IMMEDIATE_ACCESS == 0
DIRECT_ACCESS == 1
MATRIX_ACCESS == 2
REGISTER_ACCESS == 3

AM_1_2 == {DIRECT_ACCESS, MATRIX_ACCESS}
AM_1_2_3 == {DIRECT_ACCESS, MATRIX_ACCESS, REGISTER_ACCESS}
ALL == {IMMEDIATE_ACCESS, DIRECT_ACCESS, MATRIX_ACCESS, REGISTER_ACCESS}
NONE == {}

(***************************************************************************)
(* tables.c                                                                *)
(***************************************************************************)
opcode_table ==
  [o \in 0..15 |->
     CASE o = 0  -> [opcode |-> 0,  name |-> "mov",  operands_amount |-> 2, source |-> ALL,    dest |-> AM_1_2_3, encoding |-> ABSOLUTE]
       [] o = 1  -> [opcode |-> 1,  name |-> "cmp",  operands_amount |-> 2, source |-> ALL,    dest |-> ALL,      encoding |-> ABSOLUTE]
       [] o = 2  -> [opcode |-> 2,  name |-> "add",  operands_amount |-> 2, source |-> ALL,    dest |-> AM_1_2_3, encoding |-> ABSOLUTE]
       [] o = 3  -> [opcode |-> 3,  name |-> "sub",  operands_amount |-> 2, source |-> ALL,    dest |-> AM_1_2_3, encoding |-> ABSOLUTE]
       [] o = 4  -> [opcode |-> 4,  name |-> "lea",  operands_amount |-> 2, source |-> AM_1_2, dest |-> AM_1_2_3, encoding |-> ABSOLUTE]
       [] o = 5  -> [opcode |-> 5,  name |-> "clr",  operands_amount |-> 1, source |-> NONE,   dest |-> AM_1_2_3, encoding |-> ABSOLUTE]
       [] o = 6  -> [opcode |-> 6,  name |-> "not",  operands_amount |-> 1, source |-> NONE,   dest |-> AM_1_2_3, encoding |-> ABSOLUTE]
       [] o = 7  -> [opcode |-> 7,  name |-> "inc",  operands_amount |-> 1, source |-> NONE,   dest |-> AM_1_2_3, encoding |-> ABSOLUTE]
       [] o = 8  -> [opcode |-> 8,  name |-> "dec",  operands_amount |-> 1, source |-> NONE,   dest |-> AM_1_2_3, encoding |-> ABSOLUTE]
       [] o = 9  -> [opcode |-> 9,  name |-> "jmp",  operands_amount |-> 1, source |-> NONE,   dest |-> AM_1_2_3, encoding |-> ABSOLUTE]
       [] o = 10 -> [opcode |-> 10, name |-> "bne",  operands_amount |-> 1, source |-> NONE,   dest |-> AM_1_2_3, encoding |-> ABSOLUTE]
       [] o = 11 -> [opcode |-> 11, name |-> "jsr",  operands_amount |-> 1, source |-> NONE,   dest |-> AM_1_2_3, encoding |-> ABSOLUTE]
       [] o = 12 -> [opcode |-> 12, name |-> "red",  operands_amount |-> 1, source |-> NONE,   dest |-> AM_1_2_3, encoding |-> ABSOLUTE]
       [] o = 13 -> [opcode |-> 13, name |-> "prn",  operands_amount |-> 1, source |-> NONE,   dest |-> ALL,      encoding |-> ABSOLUTE]
       [] o = 14 -> [opcode |-> 14, name |-> "rts",  operands_amount |-> 0, source |-> NONE,   dest |-> NONE,     encoding |-> ABSOLUTE]
       [] OTHER  -> [opcode |-> 15, name |-> "stop", operands_amount |-> 0, source |-> NONE,   dest |-> NONE,     encoding |-> ABSOLUTE]]

OpcodeNames == {opcode_table[o].name : o \in 0..15}
registers == {"r0", "r1", "r2", "r3", "r4", "r5", "r6", "r7"}
data_directives_table == {".data", ".string", ".mat"}
attributes_directives_table == {".entry", ".extern"}
DirectiveBareNames == {"data", "string", "mat", "entry", "extern"}
macro_declaration == {"mcro", "mcroend"}

(***************************************************************************)
(* Source text.  A line is kept as what the tokenisers of the program see  *)
(* in it: an optional label, the statement that follows, and whether the   *)
(* text has exactly MAX_LINE_LEN-1 characters before its newline (long).   *)
(***************************************************************************)
NoName == ""
NoOpcode == Cardinality(OpcodeNames)

Operand(t, v, l, r1, r2) == [type |-> t, val |-> v, label |-> l, reg_1 |-> r1, reg_2 |-> r2]
Imm(v) == Operand(IMMEDIATE_ACCESS, v, NoName, 0, 0)
Dir(l) == Operand(DIRECT_ACCESS, 0, l, 0, 0)
Mat(l, r1, r2) == Operand(MATRIX_ACCESS, 0, l, r1, r2)
Reg(r) == Operand(REGISTER_ACCESS, r, NoName, 0, 0)

Line(k, lab, g, o, os, n, vs, j, lg) ==
  [kind |-> k, label |-> lab, gap |-> g, op |-> o, ops |-> os, name |-> n,
   vals |-> vs, junk |-> j, long |-> lg, rows |-> 0, cols |-> 0]

\* "<label>: <mnemonic> <operands>"
Instr(lab, o, os) == Line("instr", lab, 1, o, os, NoName, <<>>, FALSE, FALSE)
\* "<label>: .data v1, v2, ..."
Data(lab, vs) == Line("data", lab, 1, NoOpcode, <<>>, NoName, vs, FALSE, FALSE)
\* "<label>: .string "c1...cn" [junk]", the characters given by their codes
Str(lab, chars, j) == Line("string", lab, 1, NoOpcode, <<>>, NoName, chars, j, FALSE)
\* "<label>: .mat [rows][cols] v1, v2, ..."
MatLine(lab, r, c, vs) ==
  [Line("mat", lab, 1, NoOpcode, <<>>, NoName, vs, FALSE, FALSE) EXCEPT !.rows = r, !.cols = c]
\* ".extern <name>"
Extern(n) == Line("extern", NoName, 1, NoOpcode, <<>>, n, <<>>, FALSE, FALSE)
\* "<label>:<gap blanks>.entry <name>"
Entry(lab, g, n) == Line("entry", lab, g, NoOpcode, <<>>, n, <<>>, FALSE, FALSE)
\* "mcro <name> [junk]"
Mcro(n, j) == Line("mcro", NoName, 1, NoOpcode, <<>>, n, <<>>, j, FALSE)
\* "mcroend [junk]"
Mcroend(j) == Line("mcroend", NoName, 1, NoOpcode, <<>>, NoName, <<>>, j, FALSE)
\* "<name> [junk]": a line that starts with a word that is no keyword
Word(n, j) == Line("word", NoName, 1, NoOpcode, <<>>, n, <<>>, j, FALSE)
\* an empty line
Blank == Line("blank", NoName, 1, NoOpcode, <<>>, NoName, <<>>, FALSE, FALSE)
\* the same text padded with blanks to MAX_LINE_LEN-1 characters
Long(l) == [l EXCEPT !.long = TRUE]

\* strtok(line, " \t\n"): the first token of the line ("" when there is none)
FirstTok(l) ==
  CASE l.label # NoName  -> "label:"
    [] l.kind = "blank"   -> NoName
    [] l.kind = "mcro"    -> "mcro"
    [] l.kind = "mcroend" -> "mcroend"
    [] l.kind = "word"    -> l.name
    [] l.kind = "instr"   -> opcode_table[l.op].name
    [] l.kind = "data"    -> ".data"
    [] l.kind = "string"  -> ".string"
    [] l.kind = "mat"     -> ".mat"
    [] l.kind = "entry"   -> ".entry"
    [] OTHER              -> ".extern"

\* the number of blank-separated tokens of the line, counted up to 3
NumToks(l) ==
  LET lab == IF l.label # NoName THEN 1 ELSE 0
      body == CASE l.kind = "blank"   -> 0
                [] l.kind = "mcro"    -> 1 + (IF l.name # NoName THEN 1 ELSE 0) + (IF l.junk THEN 1 ELSE 0)
                [] l.kind = "mcroend" -> 1 + (IF l.junk THEN 1 ELSE 0)
                [] l.kind = "word"    -> 1 + (IF l.junk THEN 1 ELSE 0)
                [] l.kind = "instr"   -> 1 + (IF Len(l.ops) > 0 THEN 1 ELSE 0)
                [] l.kind = "data"    -> 2
                [] l.kind = "string"  -> 2 + (IF l.junk THEN 1 ELSE 0)
                [] l.kind = "mat"     -> 2 + (IF Len(l.vals) > 0 THEN 1 ELSE 0)
                [] OTHER              -> 1 + (IF l.name # NoName THEN 1 ELSE 0) + (IF l.junk THEN 1 ELSE 0)
  IN lab + body

(***************************************************************************)
(* util.c                                                                  *)
(***************************************************************************)
\* the names of the model that start with a letter and continue with
\* letters, digits or '_' (every name but "1x")
Identifiers == {"A", "B", "D", "K", "L", "M", "S", "T", "X", "Y", "stop", "mov", "r1", "data", "mcro"}

is_name_valid(str) == str \in Identifiers

is_opcode(name) == name \in OpcodeNames
is_register(str) == str \in registers
is_PP_saved_name(name) == name \in macro_declaration

is_sys_saved_name(name) ==
  \/ name \in DirectiveBareNames
  \/ is_opcode(name)
  \/ is_register(name)
  \/ is_PP_saved_name(name)


(***************************************************************************)
(* State of one run of the assembler on one source file                    *)
(* (assembler_context of context.h, the locals of execute_preprocessor and *)
(* the files the run creates).                                             *)
(***************************************************************************)
VARIABLES
  pc,                      \* the statement of run_assembler that runs next
  as_file,                 \* the lines of the .as source file
  as_pos,                  \* read position of as_file: index of the next line
  as_partial,              \* TRUE when only the newline of line as_pos is unread
  as_file_line,            \* asmContext->as_file_line
  new_line_num,            \* local new_line_num of execute_preprocessor
  origin_line_num,         \* local origin_line_num of execute_preprocessor
  am_file_content,         \* local buffer am_file_content: pieces appended by strcat
  am_file,                 \* the lines of the .am file
  files,                   \* the files the run has created
  macros,                  \* asmContext->macros
  lines_maper,             \* asmContext->lines_maper
  preproc_error,           \* asmContext->preproc_error
  first_pass_error,        \* asmContext->first_pass_error
  second_pass_error,       \* asmContext->second_pass_error
  global_error,            \* asmContext->global_error
  errors,                  \* what print_external_error has printed, in order
  am_file_line,            \* asmContext->am_file_line
  second_pass_error_line,  \* asmContext->second_pass_error_line
  labels,                  \* asmContext->labels
  instruction_memory,      \* asmContext->instruction_memory
  data_memory,             \* asmContext->data_memory
  address_update_requests, \* asmContext->address_update_requests
  external_labels,         \* asmContext->external_labels
  IC,                      \* asmContext->IC
  DC,                      \* asmContext->DC
  memory_usage,            \* asmContext->memory_usage
  req_pos,                 \* loop position of process_addr_update_requests
  ret,                     \* what the stages returned to run_assembler
  run,                     \* how many times the preprocessor was started
  first_run                \* the source, .am text and line map of the first start

ppVars == <<as_file, as_pos, as_partial, as_file_line, new_line_num, origin_line_num,
            am_file_content, am_file, macros, lines_maper, preproc_error>>
passVars == <<am_file_line, second_pass_error_line, labels, instruction_memory,
              data_memory, address_update_requests, external_labels, IC, DC,
              memory_usage, req_pos, first_pass_error, second_pass_error>>
runVars == <<pc, files, global_error, errors, ret, run, first_run>>
vars == <<ppVars, passVars, runVars>>

(***************************************************************************)
(* lines_map.c                                                             *)
(***************************************************************************)
\* add_lines_to_map recording the line after the original one
add_lines_to_map_next_line(orig, new, map) ==
  Append(map, [orign_line_num |-> orig + 1, new_line_num |-> new])

add_lines_to_map(orig, new, map) ==
  Append(map, [orign_line_num |-> orig, new_line_num |-> new])

get_origin_file_line(new, map) ==
  IF \E i \in 1..Len(map) : map[i].new_line_num = new
  THEN map[CHOOSE i \in 1..Len(map) :
             /\ map[i].new_line_num = new
             /\ \A j \in 1..(i - 1) : map[j].new_line_num # new].orign_line_num
  ELSE -1

(***************************************************************************)
(* errors.c                                                                *)
(***************************************************************************)
AS_FILE_LINE_CODES == {147, 148, 149, 150, 151, 152, 153, 176, 177}
SECOND_PASS_SET_LINE_CODES == {141, 142, 146}

\* the code and the line number print_external_error prints; it sets no flag
print_external_error(code, asl, aml, spl, map) ==
  [code |-> code,
   line |-> IF code \in SECOND_PASS_SET_LINE_CODES THEN get_origin_file_line(spl, map)
            ELSE IF code \in AS_FILE_LINE_CODES THEN asl
            ELSE get_origin_file_line(aml, map)]

\* an error of the preprocessor, printed while as_file_line = asl
PPError(code, asl) == print_external_error(code, asl, 0, 0, <<>>)

(***************************************************************************)
(* Macro table and labels lookups used by the name checks                  *)
(***************************************************************************)
add_macro(name, content, lines_amount, macro_list, define_line) ==
  Append(macro_list, [name |-> name, content |-> content, lines |-> lines_amount,
                      define_line |-> define_line])

is_macro_defined(name, macro_list) == \E i \in 1..Len(macro_list) : macro_list[i].name = name

get_macro(name, macro_list) ==
  macro_list[CHOOSE i \in 1..Len(macro_list) :
               /\ macro_list[i].name = name
               /\ \A j \in 1..(i - 1) : macro_list[j].name # name]

is_label_defined(name, label_list) == \E i \in 1..Len(label_list) : label_list[i].name = name

is_used_name(name, label_list, macro_list) ==
  is_label_defined(name, label_list) \/ is_macro_defined(name, macro_list)

can_add_name(name, label_list, macro_list) ==
  ~(is_sys_saved_name(name) \/ is_used_name(name, label_list, macro_list))

(***************************************************************************)
(* pre_processor.c                                                         *)
(***************************************************************************)
Chunk(text, nl) == [text |-> text, nl |-> nl]

\* fgets(buf, size, fp) on a file whose lines all end with a newline.  With
\* size = MAX_LINE_LEN (whole = FALSE) a line of MAX_LINE_LEN-1 characters
\* comes back without its newline, which the next call returns on its own;
\* with size = MAX_LINE_LEN+2 (whole = TRUE) every line comes back complete.
fgets(whole, file, pos, partial) ==
  IF pos > Len(file)
  THEN [eof |-> TRUE, chunk |-> Chunk(Blank, TRUE), pos |-> pos, partial |-> FALSE]
  ELSE IF partial
  THEN [eof |-> FALSE, chunk |-> Chunk(Blank, TRUE), pos |-> pos + 1, partial |-> FALSE]
  ELSE IF file[pos].long /\ ~whole
  THEN [eof |-> FALSE, chunk |-> Chunk(file[pos], FALSE), pos |-> pos, partial |-> TRUE]
  ELSE [eof |-> FALSE, chunk |-> Chunk(file[pos], TRUE), pos |-> pos + 1, partial |-> FALSE]

\* the lines fgets(buf, MAX_LINE_LEN+2, fp) reads from a text made of pieces
RECURSIVE FileLines(_)
FileLines(c) ==
  IF c = <<>> THEN <<>>
  ELSE IF ~c[1].nl /\ Len(c) > 1
  THEN <<(IF c[2].text = Blank THEN c[1].text ELSE [c[1].text EXCEPT !.junk = TRUE])>>
       \o FileLines(SubSeq(c, 3, Len(c)))
  ELSE <<c[1].text>> \o FileLines(Tail(c))

\* the macro name when the line is "mcro <name>", else NoName; with the
\* errors printed and whether preproc_error is set
is_start_of_macro(line, asl) ==
  IF FirstTok(line) # "mcro"
  THEN IF FirstTok(line) = "mcroend"
       THEN [macro_name |-> NoName, errs |-> <<PPError(177, asl)>>, flag |-> TRUE]
       ELSE [macro_name |-> NoName, errs |-> <<>>, flag |-> FALSE]
  ELSE IF NumToks(line) = 1
  THEN [macro_name |-> NoName, errs |-> <<PPError(176, asl)>>, flag |-> TRUE]
  ELSE IF NumToks(line) > 2
  THEN [macro_name |-> NoName, errs |-> <<PPError(149, asl)>>, flag |-> TRUE]
  ELSE [macro_name |-> line.name, errs |-> <<>>, flag |-> FALSE]

is_end_of_macro(line, asl) ==
  IF FirstTok(line) = "mcroend"
  THEN IF NumToks(line) = 1
       THEN [end |-> TRUE, errs |-> <<>>, flag |-> FALSE]
       ELSE [end |-> TRUE, errs |-> <<PPError(150, asl)>>, flag |-> TRUE]
  ELSE [end |-> FALSE, errs |-> <<>>, flag |-> FALSE]

\* the loop of read_macro_content from read position (pos, partial), with
\* as_file_line = asl, the body read so far and the lines counted so far
RECURSIVE read_macro_content(_, _, _, _, _, _)
read_macro_content(file, pos, partial, asl, content, lines_count) ==
  LET r == fgets(TRUE, file, pos, partial)
      e == is_end_of_macro(r.chunk.text, asl + 1)
  IN IF r.eof
     THEN [ok |-> FALSE, content |-> <<>>, lines_count |-> lines_count, pos |-> r.pos,
           partial |-> r.partial, as_file_line |-> asl,
           errs |-> <<PPError(152, asl)>>, flag |-> TRUE]
     ELSE IF e.end
     THEN IF content = <<>>
          THEN [ok |-> FALSE, content |-> <<>>, lines_count |-> lines_count + 1,
                pos |-> r.pos, partial |-> r.partial, as_file_line |-> asl + 1,
                errs |-> e.errs \o <<PPError(151, asl + 1)>>, flag |-> TRUE]
          ELSE [ok |-> TRUE, content |-> content, lines_count |-> lines_count + 1,
                pos |-> r.pos, partial |-> r.partial, as_file_line |-> asl + 1,
                errs |-> e.errs, flag |-> e.flag]
     ELSE read_macro_content(file, r.pos, r.partial, asl + 1,
                             Append(content, r.chunk), lines_count + 1)

is_macro_call(line, macro_list, asl) ==
  IF FirstTok(line) # NoName /\ is_macro_defined(FirstTok(line), macro_list)
  THEN IF NumToks(line) = 1
       THEN [call |-> TRUE, macro |-> get_macro(FirstTok(line), macro_list),
             errs |-> <<>>, flag |-> FALSE]
       ELSE [call |-> FALSE, macro |-> get_macro(FirstTok(line), macro_list),
             errs |-> <<PPError(153, asl)>>, flag |-> TRUE]
  ELSE [call |-> FALSE, macro |-> [name |-> NoName, content |-> <<>>, lines |-> 0, define_line |-> 0],
        errs |-> <<>>, flag |-> FALSE]

\* the line-map entries the invocation loop adds: body line i of the macro
\* (i = 1 .. lines-1) at expanded line new + i - 1
macro_call_map(macro, new, map) ==
  map \o [i \in 1..(macro.lines - 1) |->
            [orign_line_num |-> macro.define_line + i, new_line_num |-> new + i - 1]]

StageResult(stage, result) == [stage |-> stage, result |-> result]

\* one iteration of the while (fgets(line, MAX_LINE_LEN, as_file)) loop of
\* execute_preprocessor, with the goto cleanUp it may take
PreprocStep ==
  /\ pc = "preproc"
  /\ LET r == fgets(FALSE, as_file, as_pos, as_partial)
         line == r.chunk.text
         asl == as_file_line + 1
         new == new_line_num + 1
         orig == origin_line_num + 1
         s == is_start_of_macro(line, asl)
         c == is_macro_call(line, macros, asl)
         e148 == IF ~is_name_valid(s.macro_name) THEN <<PPError(148, asl)>> ELSE <<>>
         e147 == IF ~can_add_name(s.macro_name, labels, macros)
                 THEN <<PPError(147, asl)>> ELSE <<>>
         m == read_macro_content(as_file, r.pos, r.partial, asl, <<>>, 0)
     IN /\ ~r.eof
        /\ IF s.macro_name # NoName
           THEN /\ errors' = errors \o e148 \o e147 \o m.errs
                /\ as_pos' = m.pos
                /\ as_partial' = m.partial
                /\ as_file_line' = m.as_file_line
                /\ UNCHANGED <<am_file_content, lines_maper>>
                /\ IF m.ok
                   THEN /\ macros' = add_macro(s.macro_name, m.content, m.lines_count,
                                               macros, m.as_file_line - m.lines_count)
                        /\ origin_line_num' = orig + m.lines_count
                        /\ new_line_num' = new - 1
                        /\ preproc_error' = (preproc_error \/ m.flag)
                        /\ UNCHANGED <<pc, ret>>
                   ELSE /\ preproc_error' = TRUE
                        /\ origin_line_num' = orig
                        /\ new_line_num' = new
                        /\ pc' = "cleanup"
                        /\ ret' = Append(ret, StageResult("preprocessor", FALSE))
                        /\ UNCHANGED macros
           ELSE /\ errors' = errors \o s.errs \o c.errs
                /\ preproc_error' = (preproc_error \/ s.flag \/ c.flag)
                /\ as_pos' = r.pos
                /\ as_partial' = r.partial
                /\ as_file_line' = asl
                /\ origin_line_num' = orig
                /\ UNCHANGED <<macros, pc, ret>>
                /\ IF c.call
                   THEN /\ am_file_content' = am_file_content \o c.macro.content
                        /\ lines_maper' = macro_call_map(c.macro, new, lines_maper)
                        /\ new_line_num' = new + (c.macro.lines - 1) - 1
                   ELSE /\ am_file_content' = Append(am_file_content, r.chunk)
                        /\ lines_maper' = add_lines_to_map(orig, new, lines_maper)
                        /\ new_line_num' = new
  /\ UNCHANGED <<as_file, am_file, passVars, files, global_error, run, first_run>>

\* the end of execute_preprocessor, once fgets has returned NULL
PreprocFinish ==
  /\ pc = "preproc"
  /\ fgets(FALSE, as_file, as_pos, as_partial).eof
  /\ IF ~preproc_error
     THEN /\ am_file' = FileLines(am_file_content)
          /\ files' = files \cup {"am"}
          /\ ret' = Append(ret, StageResult("preprocessor", TRUE))
          /\ pc' = "first_pass"
          /\ UNCHANGED preproc_error
     ELSE /\ preproc_error' = TRUE
          /\ ret' = Append(ret, StageResult("preprocessor", FALSE))
          /\ pc' = "cleanup"
          /\ UNCHANGED <<am_file, files>>
  /\ UNCHANGED <<as_file, as_pos, as_partial, as_file_line, new_line_num, origin_line_num,
                 am_file_content, macros, lines_maper, passVars, global_error, errors,
                 run, first_run>>

(***************************************************************************)
(* assembler.c: init_assembler                                             *)
(***************************************************************************)
InitContext ==
  /\ pc = "preproc"
  /\ as_pos = 1 /\ as_partial = FALSE
  /\ as_file_line = 0 /\ new_line_num = 0 /\ origin_line_num = 0
  /\ am_file_content = <<>> /\ am_file = <<>> /\ files = {}
  /\ macros = <<>> /\ lines_maper = <<>>
  /\ preproc_error = FALSE /\ first_pass_error = FALSE /\ second_pass_error = FALSE
  /\ global_error = FALSE /\ errors = <<>>
  /\ am_file_line = 0 /\ second_pass_error_line = 0
  /\ labels = <<>> /\ instruction_memory = <<>> /\ data_memory = <<>>
  /\ address_update_requests = <<>> /\ external_labels = <<>>
  /\ IC = 0 /\ DC = 0 /\ memory_usage = 0 /\ req_pos = 0
  /\ ret = <<>> /\ run = 1
  /\ first_run = [as_file |-> <<>>, am_file |-> <<>>, lines_maper |-> <<>>]

\* a second start of the preprocessor, on the text the first start produced
PreprocAgain ==
  /\ pc = "first_pass"
  /\ run = 1
  /\ run' = 2
  /\ first_run' = [as_file |-> as_file, am_file |-> am_file, lines_maper |-> lines_maper]
  /\ as_file' = am_file
  /\ pc' = "preproc"
  /\ as_pos' = 1 /\ as_partial' = FALSE
  /\ as_file_line' = 0 /\ new_line_num' = 0 /\ origin_line_num' = 0
  /\ am_file_content' = <<>> /\ am_file' = <<>> /\ files' = {}
  /\ macros' = <<>> /\ lines_maper' = <<>>
  /\ preproc_error' = FALSE /\ errors' = <<>> /\ ret' = <<>>
  /\ UNCHANGED <<passVars, global_error>>

(***************************************************************************)
(* Source files of the preprocessor specification                          *)
(***************************************************************************)
SeqsUpTo(S, n) == UNION {[1..k -> S] : k \in 0..n}
Stop == Instr(NoName, 15, <<>>)
PPCoreLines == {Mcro("A", FALSE), Mcroend(FALSE), Word("A", FALSE), Stop}
PPRareLines == {Mcro("stop", FALSE), Mcro("1x", FALSE), Mcro("A", TRUE), Mcro(NoName, FALSE),
                Mcroend(TRUE), Word("A", TRUE), Long(Stop), Long(Word("A", FALSE)),
                Long(Mcro("A", FALSE))}
\* a source is a sequence of core lines with at most one of them replaced by
\* a rare line
InitPP ==
  /\ \E c \in SeqsUpTo(PPCoreLines, MaxSrcLines) :
       \/ as_file = c
       \/ \E i \in DOMAIN c : \E x \in PPRareLines : as_file = [c EXCEPT ![i] = x]
  /\ InitContext
NextPP == PreprocStep \/ PreprocFinish \/ PreprocAgain
SpecPP == InitPP /\ [][NextPP]_vars

(***************************************************************************)
(* labels.c                                                                *)
(***************************************************************************)
\* add_label leaves is_entry as malloc returned it: e is any of the two values
add_label(new_name, address, type, definition, labels_list, e) ==
  Append(labels_list, [name |-> new_name, address |-> address, type |-> type,
                       definition |-> definition, is_entry |-> e])

get_label_index(name, labels_list) ==
  CHOOSE i \in 1..Len(labels_list) :
    /\ labels_list[i].name = name
    /\ \A j \in 1..(i - 1) : labels_list[j].name # name

get_label(name, labels_list) == labels_list[get_label_index(name, labels_list)]

get_label_address(name, labels_list) == get_label(name, labels_list).address

is_entry_label_exist(labels_list) == \E i \in 1..Len(labels_list) : labels_list[i].is_entry

\* the label of the line (NoName when it has none) with the errors printed
\* and whether first_pass_error is set; the name is returned even when it is
\* refused
find_label_definition(line, label_list, macro_list, aml, map) ==
  IF line.label = NoName
  THEN [label |-> NoName, errs |-> <<>>, flag |-> FALSE]
  ELSE IF ~is_name_valid(line.label)
  THEN [label |-> line.label, errs |-> <<print_external_error(145, 0, aml, 0, map)>>,
        flag |-> TRUE]
  ELSE IF ~can_add_name(line.label, label_list, macro_list)
  THEN [label |-> line.label, errs |-> <<print_external_error(164, 0, aml, 0, map)>>,
        flag |-> TRUE]
  ELSE [label |-> line.label, errs |-> <<>>, flag |-> FALSE]

\* token += len + 2: the label, its colon and two more characters are cut
\* off, so after a single blank the statement loses its first character
remove_label_from_line(line) ==
  IF line.label = NoName THEN line
  ELSE IF line.gap >= 2 THEN [line EXCEPT !.label = NoName]
  ELSE [line EXCEPT !.label = NoName, !.kind = "word", !.name = "damaged"]

(***************************************************************************)
(* util.c: get_line_type                                                   *)
(***************************************************************************)
get_line_type(line) ==
  CASE line.kind = "instr"  -> "INSTRUCTION_LINE"
    [] line.kind \in {"data", "string", "mat"} -> "DATA_DIRECTIVE_LINE"
    [] line.kind = "extern" -> "EXTERN_DIRECTIVE_LINE"
    [] line.kind = "entry"  -> "ENTRY_DIRECTIVE_LINE"
    [] line.kind = "blank"  -> "EMPTY_LINE"
    [] OTHER                -> "UNKNOWN_LINE"

(***************************************************************************)
(* instruction_memory.c, data_memory.c, addresses.c, externals.c           *)
(***************************************************************************)
\* add_instruction_to_memory fails when memory_usage == MEMORY_AVAILABLE_SPACE
\* add_instruction_to_memory failing one word later
instruction_memory_full_past_limit(usage) == usage = MEMORY_AVAILABLE_SPACE + 1

instruction_memory_full(usage) == usage = MEMORY_AVAILABLE_SPACE

\* add_data_to_memory fails when memory_usage >= MEMORY_AVAILABLE_SPACE
data_memory_full(usage) == usage >= MEMORY_AVAILABLE_SPACE

\* add_addr_update_request recording the address after the one it is given
add_addr_update_request_next_address(IC_addr, operand, request_list) ==
  Append(request_list, [operand |-> operand, address |-> IC_addr + 1])

add_addr_update_request(IC_addr, operand, request_list) ==
  Append(request_list, [operand |-> operand, address |-> IC_addr])

\* add_external_usage linking the new record at the head of the list
add_external_usage_at_head(label_name, mem_address, external_usage_list) ==
  <<[label_name |-> label_name, mem_address |-> mem_address]>> \o external_usage_list

add_external_usage(label_name, mem_address, external_usage_list) ==
  Append(external_usage_list, [label_name |-> label_name, mem_address |-> mem_address])

(***************************************************************************)
(* instructions.c                                                          *)
(***************************************************************************)
\* parse_operand giving a label operand the encoding ABSOLUTE
parse_operand_absolute(o, aml) ==
  [type |-> o.type, val |-> o.val, label |-> o.label, reg_1 |-> o.reg_1, reg_2 |-> o.reg_2,
   encoding |-> ABSOLUTE, reg_encoding |-> ABSOLUTE,
   file_line |-> IF o.type \in {DIRECT_ACCESS, MATRIX_ACCESS} THEN aml ELSE 0]

\* the operand struct the try_parse_*_operand functions fill for a well-formed
\* operand: labels get encoding UNKNOWN and the line they stand on
parse_operand(o, aml) ==
  [type |-> o.type, val |-> o.val, label |-> o.label, reg_1 |-> o.reg_1, reg_2 |-> o.reg_2,
   encoding |-> IF o.type \in {DIRECT_ACCESS, MATRIX_ACCESS} THEN UNKNOWN ELSE ABSOLUTE,
   reg_encoding |-> ABSOLUTE,
   file_line |-> IF o.type \in {DIRECT_ACCESS, MATRIX_ACCESS} THEN aml ELSE 0]

NoOperand == parse_operand(Imm(0), 0)

\* handle_one_operand_line without the test of the addressing mode
handle_one_operand_line_any_mode(info, ops, aml) ==
  LET dest == IF Len(ops) >= 1 THEN parse_operand(ops[1], aml) ELSE NoOperand
      res(ok, code) == [ok |-> ok, code |-> code, src |-> NoOperand, dest |-> dest]
  IN IF Len(ops) = 0 THEN res(FALSE, 105)
     ELSE IF Len(ops) > 1 THEN res(FALSE, 106)
     ELSE res(TRUE, 0)

handle_one_operand_line(info, ops, aml) ==
  LET dest == IF Len(ops) >= 1 THEN parse_operand(ops[1], aml) ELSE NoOperand
      res(ok, code) == [ok |-> ok, code |-> code, src |-> NoOperand, dest |-> dest]
  IN IF Len(ops) = 0 THEN res(FALSE, 105)
     ELSE IF Len(ops) > 1 THEN res(FALSE, 106)
     ELSE IF dest.type \notin info.dest THEN res(FALSE, 116)
     ELSE res(TRUE, 0)

handle_two_operands_line(info, ops, aml) ==
  LET src == IF Len(ops) >= 1 THEN parse_operand(ops[1], aml) ELSE NoOperand
      dest == IF Len(ops) >= 2 THEN parse_operand(ops[2], aml) ELSE NoOperand
      res(ok, code) == [ok |-> ok, code |-> code, src |-> src, dest |-> dest]
  IN IF Len(ops) = 0 THEN res(FALSE, 105)
     ELSE IF Len(ops) = 1 THEN res(FALSE, 117)
     ELSE IF Len(ops) > 2 THEN res(FALSE, 106)
     ELSE IF src.type \notin info.source THEN res(FALSE, 115)
     ELSE IF dest.type \notin info.dest THEN res(FALSE, 116)
     ELSE res(TRUE, 0)

(***************************************************************************)
(* encoder.c                                                               *)
(***************************************************************************)
RECURSIVE BitOr(_, _)
BitOr(a, b) ==
  IF a = 0 THEN b
  ELSE IF b = 0 THEN a
  ELSE (IF a % 2 = 1 \/ b % 2 = 1 THEN 1 ELSE 0) + 2 * BitOr(a \div 2, b \div 2)

\* MainWord with the mode of a single operand written in the source field
MainWord_single_in_source(info, src, dest) ==
  BitOr(BitOr(ShiftWord(info.opcode, OPCODE_BITS_SHIFT),
              IF info.operands_amount = 2 THEN ShiftWord(src.type, SRC_ADDR_MODE_BITS_SHIFT)
              ELSE IF info.operands_amount = 1
              THEN ShiftWord(dest.type, SRC_ADDR_MODE_BITS_SHIFT) ELSE 0),
        BitOr(IF info.operands_amount = 2 THEN ShiftWord(dest.type, DEST_ADDR_MODE_BITS_SHIFT) ELSE 0,
              info.encoding))

\* the first word of an instruction: opcode, both addressing modes, ERA
MainWord(info, src, dest) ==
  BitOr(BitOr(ShiftWord(info.opcode, OPCODE_BITS_SHIFT),
              IF info.operands_amount = 2 THEN ShiftWord(src.type, SRC_ADDR_MODE_BITS_SHIFT) ELSE 0),
        BitOr(IF info.operands_amount >= 1 THEN ShiftWord(dest.type, DEST_ADDR_MODE_BITS_SHIFT) ELSE 0,
              info.encoding))

\* the word of one operand: immediate value, register number in the source or
\* destination field, or an empty data field for a label; then its ERA bits
\* OperandWord keeping the sign of an immediate instead of its low 8 bits
OperandWord_signed_immediate(o, is_dest) ==
  IF o.type = IMMEDIATE_ACCESS THEN o.val * Pow2(OPERAND_DATA_BITS_SHIFT) + o.encoding
  ELSE BitOr(IF o.type = REGISTER_ACCESS
             THEN (IF is_dest THEN ShiftWord(o.val, OPERAND_DATA_DEST_REG_SHIFT)
                   ELSE ShiftWord(o.val, OPERAND_DATA_SRC_REG_SHIFT))
             ELSE 0,
             o.encoding)

OperandWord(o, is_dest) ==
  BitOr(CASE o.type = IMMEDIATE_ACCESS -> ShiftWord(o.val, OPERAND_DATA_BITS_SHIFT)
          [] o.type = REGISTER_ACCESS ->
               IF is_dest THEN ShiftWord(o.val, OPERAND_DATA_DEST_REG_SHIFT)
               ELSE ShiftWord(o.val, OPERAND_DATA_SRC_REG_SHIFT)
          [] OTHER -> 0,
        o.encoding)

\* the extra word of a matrix operand: the two index registers
MatRegsWord(o) ==
  BitOr(BitOr(ShiftWord(o.reg_1, OPERAND_DATA_SRC_REG_SHIFT),
              ShiftWord(o.reg_2, OPERAND_DATA_DEST_REG_SHIFT)),
        o.reg_encoding)

\* the while (i < operands_amount) loop of instruction_encoder from operand i
\* (1-based) on, with the local IC, the words and the requests made so far
RECURSIVE encode_operands(_, _, _, _, _)
encode_operands(opnds, i, ic, words, reqs) ==
  IF i > Len(opnds)
  THEN [ok |-> TRUE, code |-> 0, words |-> words, reqs |-> reqs]
  ELSE LET o == opnds[i]
           is_dest == i = 2 \/ Len(opnds) = 1
           is_label == o.type \in {DIRECT_ACCESS, MATRIX_ACCESS}
           both_regs == /\ i = 2
                        /\ opnds[1].type = REGISTER_ACCESS
                        /\ opnds[2].type = REGISTER_ACCESS
           w == OperandWord(o, is_dest)
           words1 == IF both_regs
                     THEN [words EXCEPT ![Len(words)] = BitOr(w, words[Len(words)])]
                     ELSE Append(words, w)
           ic1 == IF both_regs THEN ic ELSE ic + 1
           words2 == IF o.type = MATRIX_ACCESS THEN Append(words1, MatRegsWord(o)) ELSE words1
           ic2 == IF o.type = MATRIX_ACCESS THEN ic1 + 1 ELSE ic1
       IN IF o.type = IMMEDIATE_ACCESS /\ (o.val > OPERAND_DATA_MAX \/ o.val < OPERAND_DATA_MIN)
          THEN [ok |-> FALSE, code |-> 143, words |-> words, reqs |-> reqs]
          ELSE encode_operands(opnds, i + 1, ic2, words2,
                               IF is_label THEN add_addr_update_request(ic, o, reqs) ELSE reqs)

\* instruction_encoder without the merge of two register words
instruction_encoder_no_merge(info, src, dest, ic, request_list) ==
  IF /\ info.operands_amount = 2
     /\ src.type = REGISTER_ACCESS
     /\ dest.type = REGISTER_ACCESS
  THEN [ok |-> TRUE, code |-> 0,
        words |-> <<MainWord(info, src, dest), OperandWord(src, FALSE), OperandWord(dest, TRUE)>>,
        reqs |-> request_list]
  ELSE encode_operands(CASE info.operands_amount = 2 -> <<src, dest>>
                         [] info.operands_amount = 1 -> <<dest>>
                         [] OTHER -> <<>>,
                       1, ic + 1, <<MainWord(info, src, dest)>>, request_list)

\* the words of the instruction and the request list after the call; the
\* requests made before a failure stay in the list
instruction_encoder(info, src, dest, ic, request_list) ==
  encode_operands(CASE info.operands_amount = 2 -> <<src, dest>>
                    [] info.operands_amount = 1 -> <<dest>>
                    [] OTHER -> <<>>,
                  1, ic + 1, <<MainWord(info, src, dest)>>, request_list)

\* encode_label_address writing the ERA bits over an unshifted address
encode_label_address_unshifted(address, encoding) ==
  [ok |-> address <= OPERAND_DATA_UMAX, word |-> BitOr(address % WORD_MODULUS, encoding)]

\* addr << OPERAND_DATA_BITS_SHIFT | encoding; an address that does not fit
\* the data field is a system error
encode_label_address(address, encoding) ==
  [ok |-> address <= OPERAND_DATA_UMAX,
   word |-> BitOr(ShiftWord(address, OPERAND_DATA_BITS_SHIFT), encoding)]

\* the for loop of handle_instruction_line that stores the encoded words from
\* word i on; when the memory is full it prints error 103 and moves
\* memory_usage past the limit
RECURSIVE store_instruction_words(_, _, _, _, _)
store_instruction_words(words, i, memory, ic, usage) ==
  IF i > Len(words)
  THEN [ok |-> TRUE, code |-> 0, memory |-> memory, IC |-> ic, usage |-> usage]
  ELSE IF instruction_memory_full(usage)
  THEN [ok |-> FALSE, code |-> 103, memory |-> memory, IC |-> ic, usage |-> usage + 1]
  ELSE store_instruction_words(words, i + 1,
                               Append(memory, [value |-> words[i], address |-> ic]),
                               ic + 1, usage + 1)

InstructionResult(ok, code, m, c, u, r) ==
  [ok |-> ok, code |-> code, memory |-> m, IC |-> c, usage |-> u, reqs |-> r]

\* the operands of the line as handle_one_operand_line or
\* handle_two_operands_line accept them
handle_operands(info, ops, aml) ==
  CASE info.operands_amount = 2 -> handle_two_operands_line(info, ops, aml)
    [] info.operands_amount = 1 -> handle_one_operand_line(info, ops, aml)
    [] OTHER -> [ok |-> Len(ops) = 0, code |-> IF Len(ops) = 0 THEN 0 ELSE 106,
                 src |-> NoOperand, dest |-> NoOperand]

\* the end of handle_instruction_line: the encoded words e go to the memory
\* unless memory_usage is already past the limit
\* store_encoded without the test of memory_usage against the limit
store_encoded_unguarded(e, s, memory, ic, usage) ==
  IF ~e.ok THEN InstructionResult(FALSE, e.code, memory, ic, usage, e.reqs)
  ELSE InstructionResult(s.ok, s.code, s.memory, s.IC, s.usage, e.reqs)

store_encoded(e, s, memory, ic, usage) ==
  IF ~e.ok THEN InstructionResult(FALSE, e.code, memory, ic, usage, e.reqs)
  ELSE IF usage <= MEMORY_AVAILABLE_SPACE
  THEN InstructionResult(s.ok, s.code, s.memory, s.IC, s.usage, e.reqs)
  ELSE InstructionResult(TRUE, 0, memory, ic, usage, e.reqs)

encode_and_store(e, memory, ic, usage) ==
  store_encoded(e, store_instruction_words(e.words, 1, memory, ic, usage), memory, ic, usage)

parse_encode_and_store(info, h, memory, ic, usage, request_list) ==
  IF ~h.ok THEN InstructionResult(FALSE, h.code, memory, ic, usage, request_list)
  ELSE encode_and_store(instruction_encoder(info, h.src, h.dest, ic, request_list),
                        memory, ic, usage)

\* handle_instruction_line on a line whose first token is an opcode
handle_instruction_line(line, aml, memory, ic, usage, request_list) ==
  parse_encode_and_store(opcode_table[line.op],
                         handle_operands(opcode_table[line.op], line.ops, aml),
                         memory, ic, usage, request_list)

(***************************************************************************)
(* directives.c                                                            *)
(***************************************************************************)
\* the for loop of handle_data_directives_line from value i on; error 103 is
\* printed only when memory_usage == MEMORY_AVAILABLE_SPACE
RECURSIVE store_data_values(_, _, _, _, _)
store_data_values(vals, i, memory, dc, usage) ==
  IF i > Len(vals)
  THEN [ok |-> TRUE, code |-> 0, memory |-> memory, DC |-> dc, usage |-> usage]
  ELSE IF vals[i] > WORD_MAX \/ vals[i] < WORD_MIN
  THEN [ok |-> FALSE, code |-> 123, memory |-> memory, DC |-> dc, usage |-> usage]
  ELSE IF data_memory_full(usage)
  THEN [ok |-> FALSE, code |-> IF usage = MEMORY_AVAILABLE_SPACE THEN 103 ELSE 0,
        memory |-> memory, DC |-> dc, usage |-> usage]
  ELSE store_data_values(vals, i + 1, Append(memory, [value |-> vals[i], address |-> dc]),
                         dc + 1, usage + 1)

\* what a parse_*_directive function returns: the values to store, or the
\* error it printed
Parsed(ok, code, vals) == [ok |-> ok, code |-> code, vals |-> vals]

isalnum(c) == c \in (48..57) \cup (65..90) \cup (97..122)
isspace(c) == c \in (9..13) \cup {32}

\* the text between the quotes, or the error of the first thing that is
\* wrong: a character that is neither alphanumeric nor blank, text after the
\* closing quote
extract_directive_string(line) ==
  IF \E i \in 1..Len(line.vals) : ~(isalnum(line.vals[i]) \/ isspace(line.vals[i]))
  THEN Parsed(FALSE, 125, <<>>)
  ELSE IF line.junk THEN Parsed(FALSE, 127, <<>>)
  ELSE Parsed(TRUE, 0, line.vals)

\* string_values without the terminating zero
string_values_unterminated(r) == r

\* str_len = strlen(result) + 1: the characters and the terminating zero
string_values(r) == IF r.ok THEN Parsed(TRUE, 0, r.vals \o <<0>>) ELSE r

parse_string_directive(line) == string_values(extract_directive_string(line))

parse_data_directive(line) ==
  IF Len(line.vals) = 0 THEN Parsed(FALSE, 129, <<>>) ELSE Parsed(TRUE, 0, line.vals)

\* rows * cols of the size declaration
mat_size(line) == line.rows * line.cols

\* the numbers of the line padded with zeros up to mat_size.  Sizes of
\* different sign give a negative mat_size, for which the realloc of the
\* padding fails and the program stops with a system error; no source of
\* the model has such a line.
parse_mat_directive(line) ==
  IF line.rows = 0 \/ line.cols = 0 THEN Parsed(FALSE, 136, <<>>)
  ELSE IF Len(line.vals) > mat_size(line) THEN Parsed(FALSE, 137, <<>>)
  ELSE Parsed(TRUE, 0, line.vals \o [i \in 1..(mat_size(line) - Len(line.vals)) |-> 0])

parse_directive(line) ==
  CASE line.kind = "string" -> parse_string_directive(line)
    [] line.kind = "mat"    -> parse_mat_directive(line)
    [] OTHER                -> parse_data_directive(line)

\* handle_data_directives_line once the values of the line are parsed
store_parsed_directive(p, memory, dc, usage) ==
  IF ~p.ok
  THEN [ok |-> FALSE, code |-> p.code, memory |-> memory, DC |-> dc, usage |-> usage]
  ELSE IF usage <= MEMORY_AVAILABLE_SPACE
  THEN store_data_values(p.vals, 1, memory, dc, usage)
  ELSE [ok |-> TRUE, code |-> 0, memory |-> memory, DC |-> dc, usage |-> usage]

handle_data_directives_line(line, memory, dc, usage) ==
  store_parsed_directive(parse_directive(line), memory, dc, usage)

get_extern_label(line, label_list, macro_list) ==
  IF line.name = NoName THEN [label |-> NoName, code |-> 157]
  ELSE IF ~is_name_valid(line.name) THEN [label |-> NoName, code |-> 159]
  ELSE IF ~can_add_name(line.name, label_list, macro_list) THEN [label |-> NoName, code |-> 160]
  ELSE IF line.junk THEN [label |-> NoName, code |-> 158]
  ELSE [label |-> line.name, code |-> 0]

get_entry_label(line) ==
  IF line.kind # "entry" THEN [label |-> NoName, code |-> 122]
  ELSE IF line.name = NoName THEN [label |-> NoName, code |-> 138]
  ELSE IF ~is_name_valid(line.name) THEN [label |-> NoName, code |-> 139]
  ELSE IF line.junk THEN [label |-> NoName, code |-> 140]
  ELSE [label |-> line.name, code |-> 0]

(***************************************************************************)
(* first_pass.c                                                            *)
(***************************************************************************)
ErrorIf(code, aml, map) ==
  IF code = 0 THEN <<>> ELSE <<print_external_error(code, 0, aml, 0, map)>>

FirstPassState(l, im, dm, r, ic, dc, u, errs, flag) ==
  [labels |-> l, instruction_memory |-> im, data_memory |-> dm, reqs |-> r,
   IC |-> ic, DC |-> dc, usage |-> u, errs |-> errs, flag |-> flag]

\* instruction_line leaving first_pass_error alone when the line fails
instruction_line_unflagged(f, h, n, e) ==
  FirstPassState(IF f.label # NoName /\ h.ok
                 THEN add_label(f.label, IC, "CODE", "NORMAL", labels, e) ELSE labels,
                 h.memory, data_memory, h.reqs, h.IC, DC, h.usage,
                 f.errs \o ErrorIf(h.code, n, lines_maper), f.flag)

\* case INSTRUCTION_LINE: f is what find_label_definition returned, h what
\* handle_instruction_line returned
instruction_line(f, h, n, e) ==
  FirstPassState(IF f.label # NoName /\ h.ok
                 THEN add_label(f.label, IC, "CODE", "NORMAL", labels, e) ELSE labels,
                 h.memory, data_memory, h.reqs, h.IC, DC, h.usage,
                 f.errs \o ErrorIf(h.code, n, lines_maper), f.flag \/ ~h.ok)

\* data_directive_line adding the label of a line that failed as well
data_directive_line_label_kept(f, h, n, e) ==
  FirstPassState(IF f.label # NoName
                 THEN add_label(f.label, DC, "DATA", "NORMAL", labels, e) ELSE labels,
                 instruction_memory, h.memory, address_update_requests, IC, h.DC, h.usage,
                 f.errs \o ErrorIf(h.code, n, lines_maper), f.flag \/ ~h.ok)

\* case DATA_DIRECTIVE_LINE: h is what handle_data_directives_line returned
data_directive_line(f, h, n, e) ==
  FirstPassState(IF f.label # NoName /\ h.ok
                 THEN add_label(f.label, DC, "DATA", "NORMAL", labels, e) ELSE labels,
                 instruction_memory, h.memory, address_update_requests, IC, h.DC, h.usage,
                 f.errs \o ErrorIf(h.code, n, lines_maper), f.flag \/ ~h.ok)

\* case EXTERN_DIRECTIVE_LINE: x is what get_extern_label returned
extern_directive_line(f, x, n, e) ==
  FirstPassState(IF x.label # NoName
                 THEN add_label(x.label, EXTERNAL_TEMP_ADDR, "UNKNOWN_ADDR_TYPE", "EXTERN",
                                labels, e)
                 ELSE labels,
                 instruction_memory, data_memory, address_update_requests, IC, DC,
                 memory_usage, f.errs \o ErrorIf(x.code, n, lines_maper),
                 f.flag \/ x.label = NoName)

\* the other cases: nothing is stored; code is the error printed (0: none)
other_line(f, code, n) ==
  FirstPassState(labels, instruction_memory, data_memory, address_update_requests, IC, DC,
                 memory_usage, f.errs \o ErrorIf(code, n, lines_maper), f.flag \/ code # 0)

typed_line(line, type, f, n, e) ==
  CASE type = "INSTRUCTION_LINE" ->
         instruction_line(f, handle_instruction_line(line, n, instruction_memory, IC,
                                                     memory_usage, address_update_requests),
                          n, e)
    [] type = "DATA_DIRECTIVE_LINE" ->
         data_directive_line(f, handle_data_directives_line(line, data_memory, DC,
                                                            memory_usage), n, e)
    [] type = "EXTERN_DIRECTIVE_LINE" ->
         extern_directive_line(f, get_extern_label(line, labels, macros), n, e)
    [] type = "ENTRY_DIRECTIVE_LINE" -> other_line(f, 0, n)
    [] type = "EMPTY_LINE" -> other_line(f, 180, n)
    [] OTHER -> other_line(f, 166, n)

\* the body of the while loop of execute_first_pass for line number n of the
\* .am file; e is the value a new label's is_entry field happens to hold
first_pass_line(line, n, e) ==
  IF line.kind = "blank" /\ line.label = NoName
  THEN FirstPassState(labels, instruction_memory, data_memory, address_update_requests,
                      IC, DC, memory_usage, <<>>, FALSE)
  ELSE typed_line(line, get_line_type(line),
                  find_label_definition(line, labels, macros, n, lines_maper), n, e)

\* M[rA][rB] names registers when A and B are register numbers
is_register_number(r) == r \in 0..(Cardinality(registers) - 1)

\* the errors try_parse_matrix_operand prints before it takes the goto
\* matrix_format_error: it then sets first_pass_error and returns true
\* without filling the operand struct
matrix_format_errors(o) ==
  IF o.type # MATRIX_ACCESS THEN <<>>
  ELSE (IF is_register_number(o.reg_1) THEN <<>> ELSE <<110>>)
       \o (IF is_register_number(o.reg_2) THEN <<>> ELSE <<111>>)
       \o (IF is_name_valid(o.label) THEN <<>> ELSE <<112>>)

\* the operands handle_one_operand_line and handle_two_operands_line pass to
\* parse_operand: all of them when their number is the one the opcode takes
parsed_operands(line) ==
  IF /\ get_line_type(line) = "INSTRUCTION_LINE"
     /\ opcode_table[line.op].operands_amount > 0
     /\ Len(line.ops) = opcode_table[line.op].operands_amount
  THEN line.ops ELSE <<>>

RECURSIVE operand_format_errors(_)
operand_format_errors(ops) ==
  IF ops = <<>> THEN <<>>
  ELSE matrix_format_errors(Head(ops)) \o operand_format_errors(Tail(ops))

\* what the operand struct from handle_malloc can hold when it is left
\* unfilled: zero bytes, what an operand of an earlier line left in the
\* block, or a type that is no addressing mode
UninitialisedOperands ==
  {Imm(0), Reg(1), Dir("X"), Operand(Cardinality(ALL), 0, NoName, 0, 0)}

\* the operand structs of the line after parse_operand: a struct left
\* unfilled holds any of the values above
OperandStructs(line) ==
  IF operand_format_errors(parsed_operands(line)) = <<>> THEN {line.ops}
  ELSE {s \in [1..Len(line.ops) -> UninitialisedOperands \cup {line.ops[i] : i \in 1..Len(line.ops)}] :
          \A i \in 1..Len(line.ops) :
            IF matrix_format_errors(line.ops[i]) = <<>>
            THEN s[i] = line.ops[i]
            ELSE s[i] \in UninitialisedOperands}

\* the errors of the operand formats are printed after those of the label
\* (k of them) and before that of the statement
with_format_errors(r, k, codes, n) ==
  [r EXCEPT !.errs = SubSeq(r.errs, 1, k)
                       \o [i \in 1..Len(codes) |-> print_external_error(codes[i], 0, n, 0, lines_maper)]
                       \o SubSeq(r.errs, k + 1, Len(r.errs)),
            !.flag = r.flag \/ codes # <<>>]

\* first_pass_line when the operand structs of the line hold structs
first_pass_line_with_operands(line, structs, n, e) ==
  with_format_errors(first_pass_line([line EXCEPT !.ops = structs], n, e),
                     Len(find_label_definition(line, labels, macros, n, lines_maper).errs),
                     operand_format_errors(parsed_operands(line)), n)

\* whether the line makes the first pass call add_label
AddsLabel(line) ==
  Len(first_pass_line(line, am_file_line + 1, FALSE).labels) > Len(labels)

FirstPassStore(r) ==
  /\ labels' = r.labels
  /\ instruction_memory' = r.instruction_memory
  /\ data_memory' = r.data_memory
  /\ address_update_requests' = r.reqs
  /\ IC' = r.IC
  /\ DC' = r.DC
  /\ memory_usage' = r.usage
  /\ errors' = errors \o r.errs
  /\ first_pass_error' = (first_pass_error \/ r.flag)

\* one iteration of the while (fgets(...)) loop of execute_first_pass
FirstPassLine ==
  /\ pc = "first_pass"
  /\ am_file_line < Len(am_file)
  /\ \E structs \in OperandStructs(am_file[am_file_line + 1]) :
       \E e \in (IF AddsLabel([am_file[am_file_line + 1] EXCEPT !.ops = structs])
                 THEN BOOLEAN ELSE {FALSE}) :
         FirstPassStore(first_pass_line_with_operands(am_file[am_file_line + 1], structs,
                                                      am_file_line + 1, e))
  /\ am_file_line' = am_file_line + 1
  /\ UNCHANGED <<ppVars, second_pass_error_line, external_labels, req_pos,
                 second_pass_error, pc, files, global_error, ret, run, first_run>>

\* the end of execute_first_pass; on success run_assembler calls
\* execute_second_pass, which starts by resetting am_file_line
FirstPassFinish ==
  /\ pc = "first_pass"
  /\ am_file_line = Len(am_file)
  /\ ret' = Append(ret, StageResult("first_pass", ~first_pass_error))
  /\ IF ~first_pass_error
     THEN pc' = "second_pass" /\ am_file_line' = 0
     ELSE pc' = "cleanup" /\ UNCHANGED am_file_line
  /\ UNCHANGED <<ppVars, second_pass_error_line, labels, instruction_memory, data_memory,
                 address_update_requests, external_labels, IC, DC, memory_usage, req_pos,
                 first_pass_error, second_pass_error, files, global_error, errors, run,
                 first_run>>

(***************************************************************************)
(* second_pass.c                                                           *)
(***************************************************************************)
\* SecondPassError printing the line of the expanded file as it is
SecondPassError_expanded_line(code, spl) == [code |-> code, line |-> spl]

SecondPassError(code, spl) == print_external_error(code, 0, 0, spl, lines_maper)

\* one iteration of the while (fgets(...)) loop of execute_second_pass: only
\* a line that is still an .entry line after remove_label_from_line acts
SecondPassLine ==
  /\ pc = "second_pass"
  /\ am_file_line < Len(am_file)
  /\ LET n == am_file_line + 1
         line == remove_label_from_line(am_file[n])
         g == get_entry_label(line)
         is_entry_line == ~(am_file[n].kind = "blank" /\ am_file[n].label = NoName)
                          /\ get_line_type(line) = "ENTRY_DIRECTIVE_LINE"
     IN /\ am_file_line' = n
        /\ IF ~is_entry_line
           THEN UNCHANGED <<second_pass_error, second_pass_error_line, errors, labels>>
           ELSE IF g.label = NoName
           THEN /\ second_pass_error' = TRUE
                /\ errors' = errors \o ErrorIf(g.code, n, lines_maper)
                /\ UNCHANGED <<second_pass_error_line, labels>>
           ELSE IF ~is_label_defined(g.label, labels)
           THEN /\ second_pass_error' = TRUE
                /\ second_pass_error_line' = n
                /\ errors' = Append(errors, SecondPassError(141, n))
                /\ UNCHANGED labels
           ELSE IF get_label(g.label, labels).definition = "EXTERN"
           THEN /\ second_pass_error' = TRUE
                /\ second_pass_error_line' = n
                /\ errors' = Append(errors, SecondPassError(142, n))
                /\ UNCHANGED labels
           ELSE /\ labels' = [labels EXCEPT ![get_label_index(g.label, labels)].is_entry = TRUE]
                /\ UNCHANGED <<second_pass_error, second_pass_error_line, errors>>
  /\ UNCHANGED <<ppVars, instruction_memory, data_memory, address_update_requests,
                 external_labels, IC, DC, memory_usage, req_pos, first_pass_error,
                 pc, files, global_error, ret, run, first_run>>

(***************************************************************************)
(* addresses.c                                                             *)
(***************************************************************************)
update_instruction_addresses(memory) ==
  [i \in 1..Len(memory) |-> [memory[i] EXCEPT !.address = @ + MEMORY_ADDRESS_OFFSET]]

\* update_data_addresses moving the data by the load offset only
update_data_addresses_offset_only(memory, ic) ==
  [i \in 1..Len(memory) |-> [memory[i] EXCEPT !.address = @ + MEMORY_ADDRESS_OFFSET]]

update_data_addresses(memory, ic) ==
  [i \in 1..Len(memory) |-> [memory[i] EXCEPT !.address = @ + (ic + MEMORY_ADDRESS_OFFSET)]]

\* update_labels_addresses moving the data labels by the load offset only
update_labels_addresses_offset_only(label_list, ic) ==
  [i \in 1..Len(label_list) |->
     IF label_list[i].type \in {"DATA", "CODE"}
     THEN [label_list[i] EXCEPT !.address = @ + MEMORY_ADDRESS_OFFSET]
     ELSE label_list[i]]

\* update_labels_addresses moving every label, the external ones too
update_labels_addresses_every_label(label_list, ic) ==
  [i \in 1..Len(label_list) |->
     [label_list[i] EXCEPT !.address =
        @ + (IF label_list[i].type = "DATA" THEN ic ELSE 0) + MEMORY_ADDRESS_OFFSET]]

update_labels_addresses(label_list, ic) ==
  [i \in 1..Len(label_list) |->
     IF label_list[i].type = "DATA"
     THEN [label_list[i] EXCEPT !.address = @ + (ic + MEMORY_ADDRESS_OFFSET)]
     ELSE IF label_list[i].type = "CODE"
     THEN [label_list[i] EXCEPT !.address = @ + MEMORY_ADDRESS_OFFSET]
     ELSE label_list[i]]

\* update_request_list_addresses leaving the addresses of the first pass
update_request_list_addresses_unmoved(request_list) == request_list

update_request_list_addresses(request_list) ==
  [i \in 1..Len(request_list) |->
     [request_list[i] EXCEPT !.address = @ + MEMORY_ADDRESS_OFFSET]]

\* the three relocation calls of execute_second_pass, made once its loop has
\* read the whole .am file
UpdateInstructionAddresses ==
  /\ pc = "second_pass"
  /\ am_file_line = Len(am_file)
  /\ instruction_memory' = update_instruction_addresses(instruction_memory)
  /\ pc' = "update_data_addresses"
  /\ UNCHANGED <<ppVars, am_file_line, second_pass_error_line, labels, data_memory,
                 address_update_requests, external_labels, IC, DC, memory_usage, req_pos,
                 first_pass_error, second_pass_error, files, global_error, errors, ret,
                 run, first_run>>

UpdateDataAddresses ==
  /\ pc = "update_data_addresses"
  /\ data_memory' = update_data_addresses(data_memory, IC)
  /\ pc' = "update_labels_addresses"
  /\ UNCHANGED <<ppVars, am_file_line, second_pass_error_line, labels, instruction_memory,
                 address_update_requests, external_labels, IC, DC, memory_usage, req_pos,
                 first_pass_error, second_pass_error, files, global_error, errors, ret,
                 run, first_run>>

UpdateLabelsAddresses ==
  /\ pc = "update_labels_addresses"
  /\ labels' = update_labels_addresses(labels, IC)
  /\ pc' = "process_addr_update_requests"
  /\ UNCHANGED <<ppVars, am_file_line, second_pass_error_line, instruction_memory,
                 data_memory, address_update_requests, external_labels, IC, DC,
                 memory_usage, req_pos, first_pass_error, second_pass_error, files,
                 global_error, errors, ret, run, first_run>>

\* the start of process_addr_update_requests: the addresses of the requests
\* are moved by the load offset and the loop starts at the first request
UpdateRequestListAddresses ==
  /\ pc = "process_addr_update_requests"
  /\ address_update_requests' = update_request_list_addresses(address_update_requests)
  /\ req_pos' = 1
  /\ pc' = "process_request"
  /\ UNCHANGED <<ppVars, am_file_line, second_pass_error_line, labels, instruction_memory,
                 data_memory, external_labels, IC, DC, memory_usage, first_pass_error,
                 second_pass_error, files, global_error, errors, ret, run, first_run>>

\* one iteration of the while loop of process_addr_update_requests, with the
\* return false it may take (execute_second_pass then goes to its cleanup
\* label) and the exit of print_system_error
ProcessRequest ==
  /\ pc = "process_request"
  /\ req_pos <= Len(address_update_requests)
  /\ LET req == address_update_requests[req_pos]
         label_name == req.operand.label
         found == \E i \in 1..Len(instruction_memory) :
                    instruction_memory[i].address = req.address
         node == CHOOSE i \in 1..Len(instruction_memory) :
                   /\ instruction_memory[i].address = req.address
                   /\ \A j \in 1..(i - 1) : instruction_memory[j].address # req.address
         defined == is_label_defined(label_name, labels)
         is_extern == get_label(label_name, labels).definition = "EXTERN"
         encoding == IF is_extern THEN EXTERNAL ELSE RELOCATABLE
         enc == encode_label_address(get_label_address(label_name, labels), encoding)
     IN IF ~found \/ ~defined
        THEN /\ second_pass_error' = TRUE
             /\ ret' = Append(ret, StageResult("second_pass", FALSE))
             /\ pc' = "cleanup"
             /\ IF found
                THEN /\ second_pass_error_line' = req.operand.file_line
                     /\ errors' = Append(errors, SecondPassError(146, req.operand.file_line))
                ELSE UNCHANGED <<second_pass_error_line, errors>>
             /\ UNCHANGED <<instruction_memory, address_update_requests, external_labels,
                            req_pos, labels, data_memory, macros, lines_maper>>
        ELSE IF ~enc.ok
        THEN /\ pc' = "exit"
             /\ labels' = <<>> /\ instruction_memory' = <<>> /\ data_memory' = <<>>
             /\ address_update_requests' = <<>> /\ external_labels' = <<>>
             /\ macros' = <<>> /\ lines_maper' = <<>>
             /\ UNCHANGED <<second_pass_error, second_pass_error_line, errors, ret, req_pos>>
        ELSE /\ instruction_memory' = [instruction_memory EXCEPT ![node].value = enc.word]
             /\ address_update_requests' =
                  [address_update_requests EXCEPT ![req_pos].operand.encoding = encoding]
             /\ external_labels' = IF is_extern
                                   THEN add_external_usage(label_name, req.address, external_labels)
                                   ELSE external_labels
             /\ req_pos' = req_pos + 1
             /\ UNCHANGED <<second_pass_error, second_pass_error_line, errors, ret, pc,
                            labels, data_memory, macros, lines_maper>>
  /\ UNCHANGED <<as_file, as_pos, as_partial, as_file_line, new_line_num, origin_line_num,
                 am_file_content, am_file, preproc_error, am_file_line, IC, DC,
                 memory_usage, first_pass_error, files, global_error, run, first_run>>

\* the end of execute_second_pass after every request was processed
SecondPassFinish ==
  /\ pc = "process_request"
  /\ req_pos > Len(address_update_requests)
  /\ ret' = Append(ret, StageResult("second_pass", ~second_pass_error))
  /\ pc' = IF ~second_pass_error THEN "output" ELSE "cleanup"
  /\ UNCHANGED <<ppVars, passVars, files, global_error, errors, run, first_run>>

(***************************************************************************)
(* assembler.c: run_assembler                                              *)
(***************************************************************************)
\* create_obj_file, create_bin_file, and the .ext and .ent files when there
\* is something to put in them
CreateOutputFiles ==
  /\ pc = "output"
  /\ files' = files \cup {"obj", "bin"}
                    \cup (IF external_labels # <<>> THEN {"ext"} ELSE {})
                    \cup (IF is_entry_label_exist(labels) THEN {"ent"} ELSE {})
  /\ pc' = "cleanup"
  /\ UNCHANGED <<ppVars, passVars, global_error, errors, ret, run, first_run>>

\* the cleanup label of run_assembler: global_error, then free_all_memory
Cleanup ==
  /\ pc = "cleanup"
  /\ global_error' = (preproc_error \/ first_pass_error \/ second_pass_error)
  /\ labels' = <<>> /\ instruction_memory' = <<>> /\ data_memory' = <<>>
  /\ address_update_requests' = <<>> /\ external_labels' = <<>>
  /\ macros' = <<>> /\ lines_maper' = <<>>
  /\ pc' = "done"
  /\ UNCHANGED <<as_file, as_pos, as_partial, as_file_line, new_line_num, origin_line_num,
                 am_file_content, am_file, preproc_error, am_file_line,
                 second_pass_error_line, IC, DC, memory_usage, req_pos, first_pass_error,
                 second_pass_error, files, errors, ret, run, first_run>>

Next ==
  \/ PreprocStep
  \/ PreprocFinish
  \/ FirstPassLine
  \/ FirstPassFinish
  \/ SecondPassLine
  \/ UpdateInstructionAddresses
  \/ UpdateDataAddresses
  \/ UpdateLabelsAddresses
  \/ UpdateRequestListAddresses
  \/ ProcessRequest
  \/ SecondPassFinish
  \/ CreateOutputFiles
  \/ Cleanup

(***************************************************************************)
(* Source files of the assembly specification: no macro lines              *)
(***************************************************************************)
AsmLines ==
  {Instr("L", 9, <<Dir("L")>>),
   Instr(NoName, 9, <<Dir("X")>>),
   Instr(NoName, 0, <<Dir("X"), Dir("M")>>),
   Instr(NoName, 0, <<Mat("M", 1, 2), Reg(3)>>),
   Instr(NoName, 0, <<Reg(1), Reg(2)>>),
   Instr(NoName, 13, <<Imm(-1)>>),
   Stop,
   Data("M", <<7, -1>>),
   Data(NoName, <<3>>),
   Extern("X"),
   Entry(NoName, 1, "L"),
   Entry(NoName, 1, "X"),
   Entry("K", 1, "X")}

InitAsm ==
  /\ \E n \in 0..MaxAsmLines : \E c \in [1..n -> AsmLines] : as_file = c
  /\ InitContext
SpecAsm == InitAsm /\ [][Next]_vars

(***************************************************************************)
(* Source files of the whole run: macro lines and assembly lines           *)
(***************************************************************************)
RunLines ==
  {Mcro("A", FALSE),
   Mcro("stop", FALSE),
   Mcroend(FALSE),
   Word("A", FALSE),
   Stop,
   Instr(NoName, 9, <<Dir("X")>>),
   Instr(NoName, 0, <<Reg(1)>>),
   Extern("X"),
   Entry(NoName, 1, "X")}

Init ==
  /\ \E n \in 0..MaxRunLines : \E c \in [1..n -> RunLines] : as_file = c
  /\ InitContext

Spec == Init /\ [][Next]_vars

(***************************************************************************)
(* Source files of the encoding specification: some stop lines, one        *)
(* instruction line with any opcode and up to two operands of any kind     *)
(* (legal or not), and then either nothing or the lines that define the    *)
(* labels the operands name.                                               *)
(***************************************************************************)
EncOperands ==
  {Imm(OPERAND_DATA_MIN - 1), Imm(OPERAND_DATA_MIN), Imm(-1), Imm(OPERAND_DATA_MAX),
   Imm(OPERAND_DATA_MAX + 1),
   Dir("X"), Dir("M"),
   Mat("M", 1, 2), Mat("X", 7, 0),
   Reg(1), Reg(6)}

EncLines ==
  {Instr(lab, o, ops) : lab \in {NoName, "L"}, o \in 0..15,
                        ops \in UNION {[1..n -> EncOperands] : n \in 0..2}}

EncTrailers == {<<>>, <<Data("M", <<7, -1>>), Extern("X")>>}

InitEnc ==
  /\ \E k \in 0..MaxStopLines : \E l \in EncLines : \E t \in EncTrailers :
       as_file = [i \in 1..k |-> Stop] \o <<l>> \o t
  /\ InitContext

SpecEnc == InitEnc /\ [][Next]_vars

(***************************************************************************)
(* Source files of the operand-format specification: as above, with        *)
(* matrix operands that name a register that does not exist.               *)
(***************************************************************************)
FmtOperands == {Mat("M", Cardinality(registers), 1), Mat("M", 1, 2), Dir("X"), Reg(1)}

FmtLines ==
  {Instr(lab, o, ops) : lab \in {NoName, "L"}, o \in 0..15,
                        ops \in UNION {[1..n -> FmtOperands] : n \in 0..2}}

InitFmt ==
  /\ \E k \in 0..MaxStopLines : \E l \in FmtLines : \E t \in EncTrailers :
       as_file = [i \in 1..k |-> Stop] \o <<l>> \o t
  /\ InitContext

SpecFmt == InitFmt /\ [][Next]_vars

(***************************************************************************)
(* Source files of the data specification: .string, .mat and .data lines,  *)
(* well-formed or not, with the instruction lines that fill the memory and *)
(* refer to the labels.                                                    *)
(***************************************************************************)
DataLines ==
  {Str("S", <<72, 73>>, FALSE),
   Str(NoName, <<>>, FALSE),
   Str(NoName, <<72, 33>>, FALSE),
   Str(NoName, <<72>>, TRUE),
   MatLine("T", 2, 2, <<1, 2>>),
   MatLine(NoName, 1, 2, <<1, 2, 3>>),
   MatLine(NoName, 0, 2, <<>>),
   MatLine(NoName, -1, -2, <<5>>),
   Data("D", <<1, WORD_MAX + 1>>),
   Data(NoName, <<WORD_MIN, WORD_MAX>>),
   Stop,
   Instr(NoName, 9, <<Dir("S")>>)}

InitData ==
  /\ \E n \in 0..MaxDataLines : \E c \in [1..n -> DataLines] : as_file = c
  /\ InitContext

SpecData == InitData /\ [][Next]_vars

(***************************************************************************)
(* A run on two source files: the loop of run_assembler                    *)
(***************************************************************************)
\* what the assembly of the current file has produced when the cleanup
\* label is reached
FileResult ==
  [labels |-> labels, instruction_memory |-> instruction_memory,
   data_memory |-> data_memory, address_update_requests |-> address_update_requests,
   external_labels |-> external_labels, lines_maper |-> lines_maper, macros |-> macros,
   IC |-> IC, DC |-> DC, memory_usage |-> memory_usage,
   preproc_error |-> preproc_error, first_pass_error |-> first_pass_error,
   second_pass_error |-> second_pass_error,
   second_pass_error_line |-> second_pass_error_line,
   am_file |-> am_file, files |-> files, errors |-> errors, ret |-> ret]

\* the cleanup label for the first of two files, and the next iteration of
\* while (--argc > 0) up to the call of execute_preprocessor:
\* free_all_memory, then init_assembler on the same context for the next
\* file c, which has the text of the first file or is the source
\* .extern X / jmp X.  The result of the first file is kept in first_run
\* when the next file has the same text.
OtherSource == <<Extern("X"), Instr(NoName, 9, <<Dir("X")>>)>>

NextSourceFile ==
  /\ pc = "cleanup"
  /\ run = 1
  /\ run' = 2
  /\ \E c \in {as_file, OtherSource} :
       /\ as_file' = c
       /\ first_run' = [kept |-> (c = as_file),
                        result |-> IF c = as_file THEN FileResult ELSE [files |-> {}]]
  /\ memory_usage' = 0 /\ DC' = 0 /\ IC' = 0
  /\ preproc_error' = FALSE /\ first_pass_error' = FALSE /\ second_pass_error' = FALSE
  /\ global_error' = FALSE
  /\ as_file_line' = 0 /\ am_file_line' = 0
  /\ data_memory' = <<>> /\ instruction_memory' = <<>>
  /\ external_labels' = <<>> /\ labels' = <<>> /\ macros' = <<>>
  /\ address_update_requests' = <<>> /\ lines_maper' = <<>>
  /\ second_pass_error_line' = 0
  /\ as_pos' = 1 /\ as_partial' = FALSE
  /\ new_line_num' = 0 /\ origin_line_num' = 0 /\ am_file_content' = <<>>
  /\ am_file' = <<>> /\ files' = {} /\ req_pos' = 0
  /\ errors' = <<>> /\ ret' = <<>>
  /\ pc' = "preproc"

NextFiles == Next \/ NextSourceFile

SpecFiles == Init /\ [][NextFiles]_vars

(***************************************************************************)
(* PROPERTIES                                                              *)
(***************************************************************************)

(***************************************************************************)
(* What the expansion of a source is by definition: the lines of the       *)
(* source in order, each with the source line it comes from; a definition  *)
(* "mcro <name>" at line D .. "mcroend" contributes nothing, and a line    *)
(* whose only token is the name of a macro defined above contributes the   *)
(* body lines of that macro, the k-th of them coming from line D+k.        *)
(***************************************************************************)
IsMcroLine(l) == FirstTok(l) = "mcro" /\ NumToks(l) = 2
IsMcroendLine(l) == FirstTok(l) = "mcroend"
MacroEnd(src, d) ==
  IF \E e \in (d + 1)..Len(src) : IsMcroendLine(src[e])
  THEN CHOOSE e \in (d + 1)..Len(src) :
         IsMcroendLine(src[e]) /\ \A j \in (d + 1)..(e - 1) : ~IsMcroendLine(src[j])
  ELSE Len(src) + 1
Defined(table, name) == \E i \in 1..Len(table) : table[i].name = name
Definition(table, name) ==
  table[CHOOSE i \in 1..Len(table) :
          table[i].name = name /\ \A j \in 1..(i - 1) : table[j].name # name]

RECURSIVE Expansion(_, _, _)
Expansion(src, i, table) ==
  IF i > Len(src) THEN <<>>
  ELSE IF IsMcroLine(src[i])
  THEN Expansion(src, MacroEnd(src, i) + 1,
                 Append(table, [name |-> src[i].name, D |-> i,
                                body |-> SubSeq(src, i + 1, MacroEnd(src, i) - 1)]))
  ELSE IF NumToks(src[i]) = 1 /\ Defined(table, FirstTok(src[i]))
  THEN LET m == Definition(table, FirstTok(src[i]))
       IN [k \in 1..Len(m.body) |-> [text |-> m.body[k], origin |-> m.D + k]]
          \o Expansion(src, i + 1, table)
  ELSE <<[text |-> src[i], origin |-> i]>> \o Expansion(src, i + 1, table)

PreprocSucceeded == pc = "first_pass" /\ run = 1
NoErrorPrinted == errors = <<>>
HasLongLine(src) == \E i \in 1..Len(src) : src[i].long
MapEntries(j) == {i \in 1..Len(lines_maper) : lines_maper[i].new_line_num = j}

PreprocErrorCodes == {147, 148, 149, 150, 151, 152, 153, 176, 177}
PreprocErrorPrinted == \E i \in 1..Len(errors) : errors[i].code \in PreprocErrorCodes
PreprocReturned == ret # <<>> /\ ret[1].stage = "preprocessor"

\* C7: once the preprocessor has returned, if it printed any of its errors
\* (invalid, reserved or duplicate macro name, missing name, junk after the
\* name, after mcroend or after an invocation, empty body, missing mcroend,
\* mcroend without mcro) then preproc_error is set, it returned false, no
\* .am file exists and the first pass is not entered.
C7_AnyPreprocErrorStopsTheRun ==
  (PreprocReturned /\ PreprocErrorPrinted)
    => (preproc_error /\ ~ret[1].result /\ "am" \notin files /\ pc # "first_pass")

\* a macro whose name is an opcode was accepted: the error was printed, the
\* run went on and the .am file was written
C7_ReservedNameAccepted ==
  /\ PreprocSucceeded
  /\ "am" \in files
  /\ \E i \in 1..Len(errors) : errors[i].code = 147
  /\ is_macro_defined("stop", macros)

\* the same statement for the errors that do set the flag holds
C7_FlaggedErrorStopsTheRun ==
  (PreprocReturned /\ \E i \in 1..Len(errors) : errors[i].code \in PreprocErrorCodes \ {147, 148})
    => (preproc_error /\ ~ret[1].result /\ "am" \notin files /\ pc # "first_pass")

\* C8: after a run of the preprocessor that succeeded and printed no error,
\* every line j of the expanded text has exactly one line-map entry, and the
\* entry gives the source line the line comes from: its own line for a
\* passthrough line, D+k for the k-th body line of a macro defined at line D.
C8_LineMapMatchesSource ==
  (PreprocSucceeded /\ NoErrorPrinted)
    => LET x == Expansion(as_file, 1, <<>>)
       IN \A j \in 1..Len(am_file) :
            /\ Cardinality(MapEntries(j)) = 1
            /\ j <= Len(x)
            /\ get_origin_file_line(j, lines_maper) = x[j].origin

\* the same statement for the sources that have no line of exactly
\* MAX_LINE_LEN-1 characters
C8_LineMapMatchesSourceShortLines ==
  ~HasLongLine(as_file) => C8_LineMapMatchesSource

\* a body line expanded after a line of MAX_LINE_LEN-1 characters is mapped
\* to a line that is not the one it was defined on
C8_BodyLineMappedToWrongLine ==
  /\ PreprocSucceeded /\ NoErrorPrinted
  /\ as_file = <<Long(Stop), Mcro("A", FALSE), Stop, Mcroend(FALSE), Word("A", FALSE)>>
  /\ am_file = <<Long(Stop), Stop>>
  /\ get_origin_file_line(2, lines_maper) = 2

\* C9: after a run of the preprocessor that succeeded and printed no error,
\* the expanded text is the source with the macro definitions removed and
\* each line whose only token is a defined macro name replaced by the body of
\* that macro, every other line unchanged and in order.
C9_ExpandedTextIsExpansion ==
  (PreprocSucceeded /\ NoErrorPrinted)
    => LET x == Expansion(as_file, 1, <<>>)
       IN am_file = [j \in 1..Len(x) |-> x[j].text]

\* the same statement for the sources that have no line of exactly
\* MAX_LINE_LEN-1 characters
C9_ExpandedTextIsExpansionShortLines ==
  ~HasLongLine(as_file) => C9_ExpandedTextIsExpansion

\* an invocation line of MAX_LINE_LEN-1 characters leaves an empty line after
\* the body
C9_EmptyLineAfterBody ==
  /\ PreprocSucceeded /\ NoErrorPrinted
  /\ as_file = <<Mcro("A", FALSE), Stop, Mcroend(FALSE), Long(Word("A", FALSE))>>
  /\ am_file = <<Stop, Blank>>

NoMacroLines(src) ==
  \A i \in 1..Len(src) : FirstTok(src[i]) \notin {"mcro", "mcroend"}
IdentityMap(map) == \A i \in 1..Len(map) : map[i].orign_line_num = map[i].new_line_num

\* C10: on a source with no macro line the expanded text is the source; a
\* second run, on that text, gives the same text and the same line map, and
\* the map sends every line to itself.
C10_NoMacroIdempotent ==
  /\ (PreprocSucceeded /\ NoMacroLines(as_file))
       => (am_file = as_file /\ IdentityMap(lines_maper)
           /\ \A j \in 1..Len(am_file) : get_origin_file_line(j, lines_maper) = j)
  /\ (pc = "first_pass" /\ run = 2 /\ NoMacroLines(first_run.as_file))
       => (am_file = first_run.am_file /\ lines_maper = first_run.lines_maper
           /\ am_file = first_run.as_file /\ IdentityMap(lines_maper))

\* a second run has finished on the text of a first run whose source had two
\* lines and no macro
C10_SecondRunDone ==
  /\ pc = "first_pass" /\ run = 2
  /\ NoMacroLines(first_run.as_file)
  /\ Len(first_run.as_file) >= 2
  /\ Len(lines_maper) >= 2

(***************************************************************************)
(* The two passes                                                          *)
(***************************************************************************)
EraBits(word) == word % 4
DataField(word) == word \div 4
Min(a, b) == IF a < b THEN a ELSE b

\* every stage returned true: the source assembled with no error
Assembled == pc = "output"
\* the second pass is running or has just returned
InSecondPass ==
  pc \in {"second_pass", "update_data_addresses", "update_labels_addresses",
          "process_addr_update_requests", "process_request", "output"}
\* the requests the loop of process_addr_update_requests has gone through
ProcessedRequests == 1..Min(req_pos - 1, Len(address_update_requests))
CodeWordsAt(address) ==
  {k \in 1..Len(instruction_memory) : instruction_memory[k].address = address}
RequestsAt(address) ==
  {i \in 1..Len(address_update_requests) : address_update_requests[i].address = address}
NamesExtern(i) ==
  /\ is_label_defined(address_update_requests[i].operand.label, labels)
  /\ get_label(address_update_requests[i].operand.label, labels).definition = "EXTERN"
NamesNormal(i) ==
  /\ is_label_defined(address_update_requests[i].operand.label, labels)
  /\ get_label(address_update_requests[i].operand.label, labels).definition = "NORMAL"

\* C1: when a source has assembled with no error, after the second pass
\* IC + DC is at most the memory capacity, the code image has exactly IC words
\* at addresses offset, offset+1, ... in list order, and the data image has
\* exactly DC words at the addresses that follow, in list order.
C1_ImagesDenseAndWithinCapacity ==
  Assembled =>
    /\ IC + DC <= MEMORY_AVAILABLE_SPACE
    /\ Len(instruction_memory) = IC
    /\ \A i \in 1..Len(instruction_memory) :
         instruction_memory[i].address = MEMORY_ADDRESS_OFFSET + (i - 1)
    /\ Len(data_memory) = DC
    /\ \A i \in 1..Len(data_memory) :
         data_memory[i].address = MEMORY_ADDRESS_OFFSET + IC + (i - 1)

\* a source with code and data that fills the memory has assembled
C1_FullMemoryAssembled ==
  /\ Assembled
  /\ IC >= 2 /\ DC >= 2
  /\ IC + DC = MEMORY_AVAILABLE_SPACE

\* C2: every fix-up request the second pass has gone through whose operand
\* names a defined label that is not external has left, at its relocated
\* address, a word of the code image whose data field is the relocated
\* address of the label and whose ERA is Relocatable; and a second pass
\* that succeeds has gone through every request.
C2_RelocatableFixups ==
  /\ \A i \in ProcessedRequests :
       NamesNormal(i) =>
         LET req == address_update_requests[i]
         IN /\ CodeWordsAt(req.address) # {}
            /\ \A k \in CodeWordsAt(req.address) :
                 /\ DataField(instruction_memory[k].value)
                      = get_label_address(req.operand.label, labels)
                 /\ EraBits(instruction_memory[k].value) = RELOCATABLE
            /\ req.address >= MEMORY_ADDRESS_OFFSET
            /\ req.address < MEMORY_ADDRESS_OFFSET + IC
  /\ Assembled => req_pos = Len(address_update_requests) + 1

\* an operand names a data label that is defined on a later line, and the
\* source has assembled
C2_ForwardReferenceResolved ==
  /\ Assembled
  /\ as_file = <<Extern("X"), Instr(NoName, 0, <<Dir("X"), Dir("M")>>), Data("M", <<7, -1>>)>>
  /\ NamesNormal(2)
  /\ get_label_address("M", labels) = MEMORY_ADDRESS_OFFSET + 3

\* the externals-use records the requests 1..n call for, in request order
RECURSIVE ExternalUses(_)
ExternalUses(n) ==
  IF n <= 0 THEN <<>>
  ELSE IF NamesExtern(n)
  THEN Append(ExternalUses(n - 1),
              [label_name |-> address_update_requests[n].operand.label,
               mem_address |-> address_update_requests[n].address])
  ELSE ExternalUses(n - 1)

\* C3: every fix-up request the second pass has gone through whose operand
\* names an .extern label has left a word with data field 0 and ERA External
\* at its relocated address, and the externals-use list holds exactly one
\* record (label name, that address) per such request, in the order the
\* requests were processed, and nothing else.
C3_ExternalFixups ==
  (pc \in {"process_request", "output", "cleanup"}) =>
    /\ \A i \in ProcessedRequests :
         NamesExtern(i) =>
           /\ CodeWordsAt(address_update_requests[i].address) # {}
           /\ \A k \in CodeWordsAt(address_update_requests[i].address) :
                /\ DataField(instruction_memory[k].value) = 0
                /\ EraBits(instruction_memory[k].value) = EXTERNAL
    /\ external_labels = ExternalUses(Min(req_pos - 1, Len(address_update_requests)))

\* two uses of an external label have been recorded, at different addresses
C3_TwoExternalUses ==
  /\ Assembled
  /\ Len(external_labels) = 2
  /\ external_labels[1].mem_address < external_labels[2].mem_address

EntryLineNames(name) ==
  \E n \in 1..Len(am_file) : am_file[n].kind = "entry" /\ am_file[n].name = name
\* line n of the .am file is an .entry line whose name is not a defined
\* label or is an external one
BadEntryLine(n) ==
  /\ am_file[n].kind = "entry"
  /\ am_file[n].name # NoName
  /\ \/ ~is_label_defined(am_file[n].name, labels)
     \/ get_label(am_file[n].name, labels).definition = "EXTERN"

\* C4 (first half): while the second pass runs and when it has returned,
\* every label whose is_entry is true is named by an .entry line of the .am
\* file and is not external.
C4_EntryFlagOnlyFromEntryLine ==
  InSecondPass =>
    \A i \in 1..Len(labels) :
      labels[i].is_entry => (EntryLineNames(labels[i].name) /\ labels[i].definition = "NORMAL")

\* C4 (second half): once the second pass has read an .entry line that names
\* an external or an undefined label, the second-pass error flag is set.
C4_BadEntryLineSetsErrorFlag ==
  InSecondPass =>
    \A n \in 1..am_file_line : BadEntryLine(n) => second_pass_error

\* C4: in every state the second pass reaches, each label with is_entry true
\* is named by an .entry line and is not external, and an .entry line naming
\* an external or undefined label has set the second-pass error flag.
C4_EntryFlags == C4_EntryFlagOnlyFromEntryLine /\ C4_BadEntryLineSetsErrorFlag

\* a source with no .entry line has assembled and a label has is_entry true
C4_EntryFlagWithoutEntryLine ==
  /\ Assembled
  /\ \A n \in 1..Len(am_file) : am_file[n].kind # "entry"
  /\ is_entry_label_exist(labels)

\* the source "K: .entry X", where X is undefined, has assembled
C4_BadEntryLineNotFlagged ==
  /\ Assembled
  /\ as_file = <<Entry("K", 1, "X")>>
  /\ ~second_pass_error

\* what the second pass itself does: a step of it turns is_entry from false
\* to true only for a label that is not external and that the line it has
\* just read names
C4_SecondPassMarksOnlyNamedLabels ==
  [][\A i \in 1..Min(Len(labels), Len(labels')) :
       (~labels[i].is_entry /\ labels'[i].is_entry)
         => /\ pc = "second_pass"
            /\ labels[i].definition = "NORMAL"
            /\ am_file[am_file_line'].kind = "entry"
            /\ am_file[am_file_line'].name = labels[i].name]_vars

\* C5: when the first pass has succeeded a code word has ERA Unknown exactly
\* when one fix-up request points at it, and no word has two requests; after
\* a second pass that succeeded no code word has ERA Unknown, a word with a
\* request has ERA Relocatable or External and every other word has ERA
\* Absolute, and every request points at a word.
C5_NoUnknownEra ==
  /\ pc = "second_pass" =>
       \A k \in 1..Len(instruction_memory) :
         Cardinality(RequestsAt(instruction_memory[k].address))
           = IF EraBits(instruction_memory[k].value) = UNKNOWN THEN 1 ELSE 0
  /\ Assembled =>
       /\ \A k \in 1..Len(instruction_memory) :
            LET n == Cardinality(RequestsAt(instruction_memory[k].address))
                era == EraBits(instruction_memory[k].value)
            IN /\ era # UNKNOWN
               /\ n <= 1
               /\ n = 1 => era \in {RELOCATABLE, EXTERNAL}
               /\ n = 0 => era = ABSOLUTE
       /\ \A i \in 1..Len(address_update_requests) :
            CodeWordsAt(address_update_requests[i].address) # {}

\* a source has assembled whose code image has an Absolute, an External and a
\* Relocatable word
C5_AllErasPresent ==
  /\ Assembled
  /\ \A era \in {ABSOLUTE, EXTERNAL, RELOCATABLE} :
       \E k \in 1..Len(instruction_memory) : EraBits(instruction_memory[k].value) = era

StageOrder == <<"preprocessor", "first_pass", "second_pass">>
OutputFiles == {"obj", "ent", "ext"}
NoFlagSet == ~preproc_error /\ ~first_pass_error /\ ~second_pass_error
SecondPassRunning == InSecondPass /\ pc # "output"

\* C6 (order and gating): the stages return in the order preprocessor, first
\* pass, second pass, each after the one before it returned true; a stage
\* runs only while the flags of the earlier stages are clear; the output
\* files are created only with the three flags clear.
C6_StagesGatedByFlags ==
  /\ Len(ret) <= Len(StageOrder)
  /\ \A i \in 1..Len(ret) :
       /\ ret[i].stage = StageOrder[i]
       /\ i < Len(ret) => ret[i].result
  /\ pc = "preproc" => ret = <<>>
  /\ pc = "first_pass" => (Len(ret) = 1 /\ ret[1].result /\ ~preproc_error)
  /\ SecondPassRunning =>
       (Len(ret) = 2 /\ ret[2].result /\ ~preproc_error /\ ~first_pass_error)
  /\ pc = "output" => (Len(ret) = 3 /\ ret[3].result /\ NoFlagSet)
  /\ files \cap OutputFiles # {} => (Len(ret) = 3 /\ ret[3].result /\ NoFlagSet)

\* C6 (no output on a user error): a run that has printed a user error has
\* created none of the .obj, .ent and .ext files.
C6_NoOutputAfterUserError ==
  errors # <<>> => files \cap OutputFiles = {}

\* C6: the stages run in the order preprocessor, first pass, second pass,
\* output; a stage starts only if every earlier one finished with its flag
\* clear; the .obj, .ent and .ext files are written only with the three flags
\* clear, and a source with any user error produces none of them.
C6_StagesInOrderNoOutputOnError ==
  C6_StagesGatedByFlags /\ C6_NoOutputAfterUserError

\* a run that printed a user error has written the object file
C6_ObjectFileDespiteError ==
  /\ pc = "cleanup"
  /\ errors # <<>>
  /\ "obj" \in files
  /\ instruction_memory # <<>>

\* every error printed in a run that wrote an output file is one of the two
\* macro-name errors that set no flag
C6_OnlyUnflaggedErrorsReachOutput ==
  files \cap OutputFiles # {} =>
    \A i \in 1..Len(errors) : errors[i].code \in {147, 148}


(***************************************************************************)
(* Encoding of one instruction line                                        *)
(***************************************************************************)
\* the operand combinations the opcode table allows, immediates in range
LegalInstr(l) ==
  /\ l.kind = "instr"
  /\ Len(l.ops) = opcode_table[l.op].operands_amount
  /\ Len(l.ops) = 2 => (l.ops[1].type \in opcode_table[l.op].source
                        /\ l.ops[2].type \in opcode_table[l.op].dest)
  /\ Len(l.ops) = 1 => l.ops[1].type \in opcode_table[l.op].dest
  /\ \A i \in 1..Len(l.ops) :
       l.ops[i].type = IMMEDIATE_ACCESS =>
         (l.ops[i].val >= OPERAND_DATA_MIN /\ l.ops[i].val <= OPERAND_DATA_MAX)
BothRegisters(l) ==
  /\ Len(l.ops) = 2
  /\ l.ops[1].type = REGISTER_ACCESS
  /\ l.ops[2].type = REGISTER_ACCESS
\* w of the claim: the words of one operand
OperandWords(o) == IF o.type = MATRIX_ACCESS THEN 2 ELSE 1
\* 1 + w(src) + w(dst), two register words counted as one
WordCount(l) ==
  IF BothRegisters(l) THEN 2
  ELSE 1 + (IF Len(l.ops) >= 1 THEN OperandWords(l.ops[1]) ELSE 0)
         + (IF Len(l.ops) = 2 THEN OperandWords(l.ops[2]) ELSE 0)
\* what instruction_encoder returns for line number n of the .am file
EncodedLine(l, h, n) ==
  instruction_encoder(opcode_table[l.op], h.src, h.dest, IC, address_update_requests)
Encoded(l, n) == EncodedLine(l, handle_operands(opcode_table[l.op], l.ops, n), n)
\* the first pass is about to read line number am_file_line + 1
ReadsLine == pc = "first_pass" /\ am_file_line < Len(am_file) /\ am_file_line' = am_file_line + 1
NextLine == am_file[am_file_line + 1]
Fits(l) == memory_usage + WordCount(l) <= MEMORY_AVAILABLE_SPACE

\* the encoder returned WordCount(l) words, between 1 and 5, two registers
\* packed in one word (source in bits 9..6, destination in bits 5..2)
CountIsRight(l, e) ==
  /\ e.ok
  /\ Len(e.words) = WordCount(l)
  /\ Len(e.words) \in 1..5
  /\ BothRegisters(l) =>
       /\ Len(e.words) = 2
       /\ e.words[2] \div 64 = l.ops[1].val
       /\ (e.words[2] \div 4) % 16 = l.ops[2].val

\* C11 as stated: whenever the first pass reads a legal instruction line, the
\* encoder returns 1 + w(src) + w(dst) words (two registers merged into one
\* word), between 1 and 5, and IC advances by exactly that count.
C11_WordCountAndICAdvance ==
  [][(ReadsLine /\ LegalInstr(NextLine))
       => (CountIsRight(NextLine, Encoded(NextLine, am_file_line + 1))
           /\ IC' = IC + WordCount(NextLine))]_vars

\* C11 amended: the same, with IC advancing by the count when the words of
\* the line fit in what is left of the memory.
C11_WordCountAndICAdvanceWhenFits ==
  [][(ReadsLine /\ LegalInstr(NextLine))
       => (CountIsRight(NextLine, Encoded(NextLine, am_file_line + 1))
           /\ (Fits(NextLine) => IC' = IC + WordCount(NextLine)))]_vars

\* a five-word instruction (two matrix operands) has been stored after a
\* stop line, and so has, in another run, an instruction with two registers
C11_FiveWordsStored ==
  /\ pc = "first_pass"
  /\ am_file_line = 1
  /\ LegalInstr(am_file[1])
  /\ WordCount(am_file[1]) = 5
  /\ IC = 5

\* a legal instruction that does not fit has been read: IC stands at the
\* capacity, short of the count of the line
C11_PartlyStored ==
  /\ pc = "first_pass"
  /\ am_file_line = 2
  /\ am_file[1] = Stop
  /\ LegalInstr(am_file[2])
  /\ WordCount(am_file[2]) = 5
  /\ IC = MEMORY_AVAILABLE_SPACE

\* the main word the claim describes: opcode in bits 9..6, source mode in
\* bits 5..4, destination mode in bits 3..2, ERA 00; a single operand is the
\* destination, an absent operand has mode bits 0
SourceModeTag(l) == IF Len(l.ops) = 2 THEN l.ops[1].type ELSE 0
DestModeTag(l) ==
  IF Len(l.ops) = 2 THEN l.ops[2].type ELSE IF Len(l.ops) = 1 THEN l.ops[1].type ELSE 0
ExpectedMainWord(l) ==
  opcode_table[l.op].opcode * 64 + SourceModeTag(l) * 16 + DestModeTag(l) * 4 + ABSOLUTE
MainWordIsFirst(l, e) ==
  /\ e.ok
  /\ e.words[1] = ExpectedMainWord(l)
  /\ Len(instruction_memory') > Len(instruction_memory) =>
       instruction_memory'[Len(instruction_memory) + 1]
         = [value |-> ExpectedMainWord(l), address |-> IC]

\* C12: whenever the first pass reads a legal instruction line, the first
\* word the encoder returns, and the first word the line adds to the code
\* image, is the main word: opcode in bits 9..6, source addressing mode in
\* bits 5..4, destination addressing mode in bits 3..2, ERA bits 00; the mode
\* bits of an absent operand are 0 and a single operand is the destination.
C12_MainWordLayout ==
  [][(ReadsLine /\ LegalInstr(NextLine))
       => MainWordIsFirst(NextLine, Encoded(NextLine, am_file_line + 1))]_vars

\* a one-operand instruction with a matrix operand has been stored: source
\* bits 0, destination bits 10
C12_SingleOperandStored ==
  /\ pc = "first_pass"
  /\ am_file_line = 1
  /\ LegalInstr(am_file[1])
  /\ Len(am_file[1].ops) = 1
  /\ am_file[1].ops[1].type = MATRIX_ACCESS
  /\ instruction_memory # <<>>
  /\ instruction_memory[1].value = am_file[1].op * 64 + MATRIX_ACCESS * 4

\* the operands of the line that name a label, and where the claim puts the
\* label word of operand i among the words of the line (the main word is 1)
IsLabelOperand(o) == o.type \in {DIRECT_ACCESS, MATRIX_ACCESS}
LabelOperands(l) == {i \in 1..Len(l.ops) : IsLabelOperand(l.ops[i])}
WordPos(l, i) == IF i = 1 THEN 2 ELSE 2 + OperandWords(l.ops[1])
\* the label operands of the line in source-then-destination order
LabelOperandSeq(l) ==
  (IF 1 \in LabelOperands(l) THEN <<1>> ELSE <<>>)
    \o (IF 2 \in LabelOperands(l) THEN <<2>> ELSE <<>>)

\* the words of the label operands: data field 0, and for a matrix the
\* register-pair word right after it
LabelWordsAreRight(l, e) ==
  \A i \in LabelOperands(l) :
    /\ WordPos(l, i) <= Len(e.words)
    /\ DataField(e.words[WordPos(l, i)]) = 0
    /\ l.ops[i].type = MATRIX_ACCESS =>
         /\ WordPos(l, i) + 1 <= Len(e.words)
         /\ e.words[WordPos(l, i) + 1]
              = l.ops[i].reg_1 * 64 + l.ops[i].reg_2 * 4 + ABSOLUTE

\* one new request per label operand, in operand order, at the address of
\* its label word, and nothing else is added to the list
RequestsAreRight(l, e, n) ==
  LET old == Len(address_update_requests)
      seq == LabelOperandSeq(l)
  IN /\ address_update_requests' = e.reqs
     /\ Len(e.reqs) = old + Len(seq)
     /\ SubSeq(e.reqs, 1, old) = address_update_requests
     /\ \A k \in 1..Len(seq) :
          /\ e.reqs[old + k].address = IC + WordPos(l, seq[k]) - 1
          /\ e.reqs[old + k].operand.label = l.ops[seq[k]].label
          /\ e.reqs[old + k].operand.file_line = n

\* the label word of each label operand is in the code image at the address
\* of its request
LabelWordsAreStored(l, e) ==
  \A i \in LabelOperands(l) :
    LET k == Len(instruction_memory) + WordPos(l, i)
    IN /\ k <= Len(instruction_memory')
       /\ instruction_memory'[k]
            = [value |-> e.words[WordPos(l, i)], address |-> IC + WordPos(l, i) - 1]

EncodedLabelOperands(l, e, n) == e.ok /\ LabelWordsAreRight(l, e) /\ RequestsAreRight(l, e, n)

\* C13 as stated: whenever the first pass reads a legal instruction line,
\* each Direct operand gives one label word with data field 0, each Matrix
\* operand that word followed by the register-pair word, source words before
\* destination words; one request is created per such operand and its
\* address is the address at which the label word is stored in the code image.
C13_LabelWordsAndRequests ==
  [][(ReadsLine /\ LegalInstr(NextLine))
       => (/\ EncodedLabelOperands(NextLine, Encoded(NextLine, am_file_line + 1),
                                   am_file_line + 1)
           /\ LabelWordsAreStored(NextLine, Encoded(NextLine, am_file_line + 1)))]_vars

\* C13 amended: the same, the label word being stored at the address of its
\* request when the words of the line fit in what is left of the memory.
C13_LabelWordsAndRequestsWhenFits ==
  [][(ReadsLine /\ LegalInstr(NextLine))
       => (/\ EncodedLabelOperands(NextLine, Encoded(NextLine, am_file_line + 1),
                                   am_file_line + 1)
           /\ Fits(NextLine)
                => LabelWordsAreStored(NextLine, Encoded(NextLine, am_file_line + 1)))]_vars

\* an instruction with two matrix operands has been stored: requests at
\* addresses 1 and 3, label words there, register words at 2 and 4
C13_TwoMatrixOperandsStored ==
  /\ pc = "first_pass"
  /\ am_file_line = 1
  /\ LabelOperands(am_file[1]) = {1, 2}
  /\ am_file[1].ops[1].type = MATRIX_ACCESS
  /\ Len(address_update_requests) = 2
  /\ address_update_requests[1].address = 1
  /\ address_update_requests[2].address = 3
  /\ Len(instruction_memory) = 5
  /\ DataField(instruction_memory[4].value) = 0

\* a request whose address holds no word of the code image: its line did not
\* fit in the memory
C13_RequestWithoutWord ==
  /\ pc = "first_pass"
  /\ \E i \in 1..Len(address_update_requests) :
       CodeWordsAt(address_update_requests[i].address) = {}


(***************************************************************************)
(* The symbol table                                                        *)
(***************************************************************************)
\* the code words and the data words of the lines before line n of the .am
\* file, counted from the text of the lines
RECURSIVE CodeWordsBefore(_)
CodeWordsBefore(n) ==
  IF n <= 1 THEN 0
  ELSE CodeWordsBefore(n - 1)
         + (IF am_file[n - 1].kind = "instr" THEN WordCount(am_file[n - 1]) ELSE 0)
RECURSIVE DataWordsBefore(_)
DataWordsBefore(n) ==
  IF n <= 1 THEN 0
  ELSE DataWordsBefore(n - 1)
         + (IF am_file[n - 1].kind = "data" THEN Len(am_file[n - 1].vals) ELSE 0)
LabelledLines(kind) ==
  {n \in 1..Len(am_file) : am_file[n].kind = kind /\ am_file[n].label # NoName}

\* C14: when the assembly has succeeded, every label attached to an
\* instruction line is a Code label whose address is the load offset plus the
\* code words of the lines before it, and every label attached to a data
\* line is a Data label whose address is the load offset plus the final IC
\* plus the data words of the lines before it.
C14_LabelFinalAddresses ==
  Assembled =>
    /\ \A n \in LabelledLines("instr") :
         /\ is_label_defined(am_file[n].label, labels)
         /\ get_label(am_file[n].label, labels).type = "CODE"
         /\ get_label(am_file[n].label, labels).address
              = MEMORY_ADDRESS_OFFSET + CodeWordsBefore(n)
         /\ CodeWordsAt(MEMORY_ADDRESS_OFFSET + CodeWordsBefore(n)) # {}
    /\ \A n \in LabelledLines("data") :
         /\ is_label_defined(am_file[n].label, labels)
         /\ get_label(am_file[n].label, labels).type = "DATA"
         /\ get_label(am_file[n].label, labels).address
              = MEMORY_ADDRESS_OFFSET + IC + DataWordsBefore(n)

\* a code label and a data label, each after a line of its own segment,
\* have their final addresses
C14_LabelsAfterOtherLines ==
  /\ Assembled
  /\ \E n \in LabelledLines("data") : DataWordsBefore(n) > 0 /\ IC > 0

\* a code label that follows another instruction has its final address
C14_CodeLabelAfterInstruction ==
  /\ Assembled
  /\ \E n \in LabelledLines("instr") : CodeWordsBefore(n) > 0


LabelNamesDistinct ==
  \A i, j \in 1..Len(labels) : labels[i].name = labels[j].name => i = j
NoReservedLabelName ==
  \A i \in 1..Len(labels) :
    ~is_sys_saved_name(labels[i].name) /\ ~is_macro_defined(labels[i].name, macros)

\* C15: at every point of the first pass no two labels of the symbol table
\* have the same name and no label is named like an opcode, a directive, a
\* register, a macro keyword or a defined macro.
C15_UniqueUnreservedLabels ==
  pc = "first_pass" => LabelNamesDistinct /\ NoReservedLabelName

\* the first pass holds a symbol table with the same name twice
C15_DuplicateLabelInTable ==
  pc = "first_pass" /\ ~LabelNamesDistinct

\* C15, the .extern half: an .extern line whose name cannot be added leaves
\* the symbol table as it is.
C15_ExternWithUsedNameNotAdded ==
  [][(ReadsLine /\ NextLine.kind = "extern" /\ NextLine.label = NoName
        /\ ~can_add_name(NextLine.name, labels, macros)) => labels' = labels]_vars

\* C15, the label-definition half: a line whose label cannot be added leaves
\* the symbol table as it is.
C15_LabelWithUsedNameNotAdded ==
  [][(ReadsLine /\ NextLine.label # NoName
        /\ ~can_add_name(NextLine.label, labels, macros)) => labels' = labels]_vars


ExternLines ==
  {n \in 1..Len(am_file) : am_file[n].kind = "extern" /\ am_file[n].label = NoName}
ValidExternLine(l) ==
  /\ l.kind = "extern" /\ l.label = NoName
  /\ get_extern_label(l, labels, macros).label # NoName
StoredAsExternal(lab) ==
  /\ lab.type = "UNKNOWN_ADDR_TYPE"
  /\ lab.address = 0
  /\ lab.definition = "EXTERN"

\* C16: a valid .extern line appends its name to the symbol table with
\* segment Unresolved, address 0 and definition External, and every label of
\* the table with definition External keeps segment Unresolved and address 0
\* in every later state, the relocation of the second pass included.
C16_ExternalLabelStoredAndKept ==
  /\ \A i \in 1..Len(labels) :
       labels[i].definition = "EXTERN" => StoredAsExternal(labels[i])
  /\ \A n \in ExternLines :
       (~first_pass_error /\ ((pc = "first_pass" /\ n <= am_file_line) \/ InSecondPass))
         => /\ is_label_defined(am_file[n].name, labels)
            /\ StoredAsExternal(get_label(am_file[n].name, labels))

\* C16, as a step: reading a valid .extern line appends exactly one label,
\* stored as external under the name of the line.
C16_ValidExternLineAppends ==
  [][(ReadsLine /\ ValidExternLine(NextLine))
       => /\ Len(labels') = Len(labels) + 1
          /\ SubSeq(labels', 1, Len(labels)) = labels
          /\ labels'[Len(labels')].name = NextLine.name
          /\ StoredAsExternal(labels'[Len(labels')])]_vars

\* the relocation has run with IC > 0 on a table that holds an external label
C16_ExternalLabelAfterRelocation ==
  /\ Assembled
  /\ IC > 0
  /\ DC > 0
  /\ \E i \in 1..Len(labels) : labels[i].definition = "EXTERN"


(***************************************************************************)
(* The memory limit                                                        *)
(***************************************************************************)
ValidData(l) ==
  l.kind = "data" /\ \A i \in 1..Len(l.vals) : l.vals[i] >= WORD_MIN /\ l.vals[i] <= WORD_MAX
\* the words the line asks the images to take
WordsNeeded(l) ==
  IF LegalInstr(l) THEN WordCount(l) ELSE IF ValidData(l) THEN Len(l.vals) ELSE 0
ImageOf(l, im, dm) == IF l.kind = "instr" THEN im ELSE dm
OtherImageOf(l, im, dm) == IF l.kind = "instr" THEN dm ELSE im
NewErrorCodes == {errors'[i].code : i \in (Len(errors) + 1)..Len(errors')}
\* k more words are in the image of the line, the other image is unchanged
Appended(l, k) ==
  /\ Len(ImageOf(l, instruction_memory', data_memory'))
       = Len(ImageOf(l, instruction_memory, data_memory)) + k
  /\ OtherImageOf(l, instruction_memory', data_memory')
       = OtherImageOf(l, instruction_memory, data_memory)
\* the words the whole .am file asks for
SourceWords == CodeWordsBefore(Len(am_file) + 1) + DataWordsBefore(Len(am_file) + 1)
AllLinesSound ==
  \A n \in 1..Len(am_file) :
    am_file[n].kind \in {"instr", "data"} /\ am_file[n].label = NoName
      /\ WordsNeeded(am_file[n]) > 0

\* C17: a line that needs w words with memory_usage <= MEMORY_CAPACITY gets
\* all of them appended without an out-of-memory error when memory_usage + w
\* <= MEMORY_CAPACITY; otherwise the words are appended while memory_usage <
\* MEMORY_CAPACITY, the append at memory_usage = MEMORY_CAPACITY fails, error
\* 103 is reported and first_pass_error is set.  A source of sound lines
\* passes the first pass exactly when it needs at most MEMORY_CAPACITY words.
C17_AppendUntilCapacity ==
  [][/\ (ReadsLine /\ WordsNeeded(NextLine) > 0 /\ memory_usage <= MEMORY_AVAILABLE_SPACE)
          => IF memory_usage + WordsNeeded(NextLine) <= MEMORY_AVAILABLE_SPACE
             THEN /\ Appended(NextLine, WordsNeeded(NextLine))
                  /\ memory_usage' = memory_usage + WordsNeeded(NextLine)
                  /\ 103 \notin NewErrorCodes
                  /\ NextLine.label = NoName => first_pass_error' = first_pass_error
             ELSE /\ Appended(NextLine, MEMORY_AVAILABLE_SPACE - memory_usage)
                  /\ 103 \in NewErrorCodes
                  /\ first_pass_error'
     /\ (pc = "first_pass" /\ pc' # "first_pass" /\ AllLinesSound)
          => (pc' = "second_pass" <=> SourceWords <= MEMORY_AVAILABLE_SPACE)]_vars

\* a source that needs exactly MEMORY_CAPACITY words, code and data, has
\* passed the first pass
C17_ExactlyFullPasses ==
  /\ pc = "second_pass"
  /\ AllLinesSound
  /\ SourceWords = MEMORY_AVAILABLE_SPACE
  /\ memory_usage = MEMORY_AVAILABLE_SPACE
  /\ IC > 0 /\ DC > 0

\* a source that needs one word more than MEMORY_CAPACITY has failed the
\* first pass
C17_OneWordTooManyFails ==
  /\ pc = "cleanup"
  /\ AllLinesSound
  /\ SourceWords = MEMORY_AVAILABLE_SPACE + 1
  /\ first_pass_error
  /\ \E i \in 1..Len(errors) : errors[i].code = 103


CountersMatchImages == IC = Len(instruction_memory) /\ DC = Len(data_memory)
OutOfMemoryReported ==
  first_pass_error /\ \E i \in 1..Len(errors) : errors[i].code = 103

\* C18: in every state of the first pass memory_usage = IC + DC, IC and DC
\* are the numbers of words of the code image and of the data image, and
\* memory_usage <= MEMORY_CAPACITY, also after an out-of-memory error.
C18_UsageIsICPlusDC ==
  pc = "first_pass" =>
    /\ CountersMatchImages
    /\ memory_usage = IC + DC
    /\ memory_usage <= MEMORY_AVAILABLE_SPACE

\* C18 as amended: in every state of the first pass IC and DC are the numbers
\* of words of the code image and of the data image, and either memory_usage
\* = IC + DC <= MEMORY_CAPACITY, or an out-of-memory error has been reported
\* and memory_usage = MEMORY_CAPACITY + 1 = IC + DC + 1.
C18_UsageIsICPlusDCUntilOverflow ==
  pc = "first_pass" =>
    /\ CountersMatchImages
    /\ \/ memory_usage = IC + DC /\ memory_usage <= MEMORY_AVAILABLE_SPACE
       \/ /\ OutOfMemoryReported
          /\ memory_usage = MEMORY_AVAILABLE_SPACE + 1
          /\ memory_usage = IC + DC + 1

\* the first pass has read its last line with one error reported, the
\* overflow of an instruction line, and memory_usage is past the limit
C18_PastTheLimit ==
  /\ pc = "first_pass"
  /\ memory_usage = MEMORY_AVAILABLE_SPACE + 1
  /\ am_file_line = Len(am_file)
  /\ am_file[am_file_line].kind \in {"instr", "data"}
  /\ Len(errors) = 1


(***************************************************************************)
(* Errors of the first pass                                                *)
(***************************************************************************)
FirstPassReturned == ret' = Append(ret, StageResult("first_pass", errors = <<>>))

\* C19: in the first pass a line for which an error is reported sets
\* first_pass_error and only such a line sets it, the flag is never cleared,
\* every line of the expanded file is read whether or not the flag is set,
\* a sound line read after an error is still stored, and execute_first_pass
\* returns, after the last line, true exactly when no error was reported.
C19_ErrorsFlaggedAndPassGoesOn ==
  [][pc = "first_pass" =>
       /\ Len(errors') > Len(errors) => first_pass_error'
       /\ (~first_pass_error /\ first_pass_error') => Len(errors') > Len(errors)
       /\ first_pass_error => first_pass_error'
       /\ am_file_line < Len(am_file)
            => (pc' = "first_pass" /\ am_file_line' = am_file_line + 1)
       /\ (ReadsLine /\ first_pass_error /\ WordsNeeded(NextLine) > 0
             /\ memory_usage + WordsNeeded(NextLine) <= MEMORY_AVAILABLE_SPACE)
            => Appended(NextLine, WordsNeeded(NextLine))
       /\ pc' # "first_pass"
            => (am_file_line = Len(am_file) /\ FirstPassReturned
                  /\ (errors = <<>> <=> ~first_pass_error))]_vars

\* the first pass has returned false after reporting the one error of the
\* source on its first line, an instruction line that is not legal, and
\* storing the words of a later line
C19_LineStoredAfterError ==
  /\ pc = "cleanup"
  /\ first_pass_error
  /\ Len(am_file) > 1
  /\ am_file[1].kind = "instr" /\ ~LegalInstr(am_file[1])
  /\ Len(errors) = 1 /\ errors[1].line = 1
  /\ data_memory # <<>>
  /\ ret # <<>> /\ ret[Len(ret)] = StageResult("first_pass", FALSE)


(***************************************************************************)
(* Undefined labels in the second pass                                     *)
(***************************************************************************)
HasUndefinedLabel(req) == ~is_label_defined(req.operand.label, labels)
UndefinedRequests == SelectSeq(address_update_requests, HasUndefinedLabel)
IsError146(e) == e.code = 146
Errors146 == SelectSeq(errors, IsError146)
ReportedLine(req) == get_origin_file_line(req.operand.file_line, lines_maper)
\* execute_second_pass has returned and the lists are not freed yet
SecondPassReturned ==
  /\ pc \in {"output", "cleanup"}
  /\ ret # <<>> /\ ret[Len(ret)].stage = "second_pass"
FirstUndefinedRequest ==
  CHOOSE k \in 1..Len(address_update_requests) :
    /\ HasUndefinedLabel(address_update_requests[k])
    /\ \A j \in 1..(k - 1) : ~HasUndefinedLabel(address_update_requests[j])

C20_UndefinedReferenceInMacro ==
  /\ SecondPassReturned
  /\ UndefinedRequests # <<>>
  /\ ReportedLine(UndefinedRequests[1]) # UndefinedRequests[1].operand.file_line


(***************************************************************************)
(* Order of the second pass                                                *)
(***************************************************************************)
CodeRelocated ==
  \A k \in 1..Len(instruction_memory) :
    instruction_memory[k].address = MEMORY_ADDRESS_OFFSET + k - 1
CodeNotRelocated ==
  \A k \in 1..Len(instruction_memory) : instruction_memory[k].address = k - 1
LabelsRelocated ==
  \A i \in 1..Len(labels) :
    /\ labels[i].type = "CODE" => labels[i].address >= MEMORY_ADDRESS_OFFSET
    /\ labels[i].type = "DATA" => labels[i].address >= MEMORY_ADDRESS_OFFSET + IC
LabelsNotRelocated ==
  \A i \in 1..Len(labels) : labels[i].address < MEMORY_ADDRESS_OFFSET
RequestsRelocated ==
  \A i \in 1..Len(address_update_requests) :
    address_update_requests[i].address >= MEMORY_ADDRESS_OFFSET
RequestsNotRelocated ==
  \A i \in 1..Len(address_update_requests) :
    address_update_requests[i].address < MEMORY_ADDRESS_OFFSET
\* the step changes the address of a label of the table
LabelAddressChanges ==
  /\ Len(labels') = Len(labels)
  /\ \E i \in 1..Len(labels) : labels'[i].address # labels[i].address
\* the step writes a resolved address into a word of the code image
FixupResolved ==
  /\ Len(instruction_memory') = Len(instruction_memory)
  /\ \E k \in 1..Len(instruction_memory) :
       instruction_memory'[k].value # instruction_memory[k].value
\* the step looks for the word of the next request in the code image
RequestMatched ==
  pc = "process_request" /\ req_pos <= Len(address_update_requests)
\* the step marks a label as an entry
EntryMarked ==
  /\ Len(labels') = Len(labels)
  /\ \E i \in 1..Len(labels) : labels'[i].is_entry /\ ~labels[i].is_entry
Addresses ==
  <<[i \in 1..Len(labels) |-> labels[i].address],
    [i \in 1..Len(instruction_memory) |-> instruction_memory[i].address],
    [i \in 1..Len(data_memory) |-> data_memory[i].address],
    [i \in 1..Len(address_update_requests) |-> address_update_requests[i].address]>>

\* C21: a step that updates a label address finds every code-image address
\* relocated; a step that matches a fix-up request against the code image or
\* writes a resolved address finds every label address updated and every
\* request address relocated; a step that marks an entry finds the code
\* image, the labels and the requests not yet relocated and changes no
\* address.
C21_SecondPassOrder ==
  [][/\ LabelAddressChanges => CodeRelocated
     /\ (RequestMatched \/ FixupResolved)
          => (CodeRelocated /\ LabelsRelocated /\ RequestsRelocated)
     /\ EntryMarked
          => /\ CodeNotRelocated /\ LabelsNotRelocated /\ RequestsNotRelocated
             /\ Addresses' = Addresses]_vars

\* a source with an .entry line, a code label marked as an entry and a
\* fix-up request has assembled
C21_EntryRelocationAndFixup ==
  /\ Assembled
  /\ \E n \in 1..Len(am_file) : am_file[n].kind = "entry"
  /\ \E i \in 1..Len(labels) : labels[i].is_entry /\ labels[i].type = "CODE"
  /\ address_update_requests # <<>>
  /\ instruction_memory # <<>>


(***************************************************************************)
(* Arity and addressing modes                                              *)
(***************************************************************************)
AllModes == {IMMEDIATE_ACCESS, DIRECT_ACCESS, MATRIX_ACCESS, REGISTER_ACCESS}
\* the arity and the modes of each slot as the opcodes are documented
DocumentedArity(name) ==
  IF name \in {"mov", "cmp", "add", "sub", "lea"} THEN 2
  ELSE IF name \in {"rts", "stop"} THEN 0 ELSE 1
DocumentedSource(name) ==
  IF name \in {"mov", "cmp", "add", "sub"} THEN AllModes
  ELSE IF name = "lea" THEN {DIRECT_ACCESS, MATRIX_ACCESS} ELSE {}
DocumentedDest(name) ==
  IF name \in {"cmp", "prn"} THEN AllModes
  ELSE IF name \in {"rts", "stop"} THEN {}
  ELSE {DIRECT_ACCESS, MATRIX_ACCESS, REGISTER_ACCESS}
ArityAndModesAllowed(l) ==
  LET name == opcode_table[l.op].name
  IN /\ Len(l.ops) = DocumentedArity(name)
     /\ Len(l.ops) = 2 => (l.ops[1].type \in DocumentedSource(name)
                           /\ l.ops[2].type \in DocumentedDest(name))
     /\ Len(l.ops) = 1 => l.ops[1].type \in DocumentedDest(name)
\* the step stores a word of the line or goes by without an error
LineAccepted ==
  \/ instruction_memory' # instruction_memory
  \/ (Len(errors') = Len(errors) /\ first_pass_error' = first_pass_error)
LineRejected ==
  /\ first_pass_error'
  /\ Len(errors') > Len(errors)
  /\ instruction_memory' = instruction_memory
  /\ Len(labels') = Len(labels)

ImmOperands(l) == {i \in 1..Len(l.ops) : l.ops[i].type = IMMEDIATE_ACCESS}
InSigned8(v) == v >= -128 /\ v <= 127
\* the 8-bit two's complement of v, as a number in 0..255
TwosComplement8(v) == IF v >= 0 THEN v ELSE v + 256
ImmediateWordsAreRight(l, words) ==
  \A i \in ImmOperands(l) :
    /\ WordPos(l, i) <= Len(words)
    /\ DataField(words[WordPos(l, i)]) = TwosComplement8(l.ops[i].val)
    /\ EraBits(words[WordPos(l, i)]) = 0
StoredWords ==
  [k \in 1..(Len(instruction_memory') - Len(instruction_memory)) |->
     instruction_memory'[Len(instruction_memory) + k].value]

\* C23: on a line whose operands have the arity and the modes of its opcode,
\* an Immediate operand with -128 <= v <= 127 is encoded as one word with the
\* 8-bit two's complement of v in bits 9..2 and ERA 00, and that word is the
\* one stored when the line fits in the memory; if an immediate of the line
\* is outside that range the encoder fails, error 143 is reported,
\* first_pass_error is set and no word of the line is stored.
C23_ImmediateWord ==
  [][(ReadsLine /\ NextLine.kind = "instr" /\ ArityAndModesAllowed(NextLine)
        /\ ImmOperands(NextLine) # {})
       => IF \A i \in ImmOperands(NextLine) : InSigned8(NextLine.ops[i].val)
          THEN /\ Encoded(NextLine, am_file_line + 1).ok
               /\ ImmediateWordsAreRight(NextLine, Encoded(NextLine, am_file_line + 1).words)
               /\ Fits(NextLine) => ImmediateWordsAreRight(NextLine, StoredWords)
          ELSE /\ ~Encoded(NextLine, am_file_line + 1).ok
               /\ 143 \in NewErrorCodes
               /\ first_pass_error'
               /\ instruction_memory' = instruction_memory]_vars

\* a line with the immediates -128 and 127 has been stored
C23_ExtremeImmediatesStored ==
  /\ pc = "first_pass"
  /\ am_file_line >= 1
  /\ am_file[am_file_line].kind = "instr"
  /\ Len(am_file[am_file_line].ops) = 2
  /\ am_file[am_file_line].ops[1] = Imm(-128)
  /\ am_file[am_file_line].ops[2] = Imm(127)
  /\ Len(instruction_memory) >= 3
  /\ instruction_memory[Len(instruction_memory) - 1].value = 512
  /\ instruction_memory[Len(instruction_memory)].value = 508
  /\ ~first_pass_error

\* a line with the immediate 128 has been refused
C23_ImmediateOutOfRange ==
  /\ pc = "first_pass"
  /\ am_file_line >= 1
  /\ am_file[am_file_line].kind = "instr"
  /\ ArityAndModesAllowed(am_file[am_file_line])
  /\ am_file[am_file_line].ops[Len(am_file[am_file_line].ops)] = Imm(128)
  /\ errors # <<>> /\ errors[Len(errors)].code = 143


(***************************************************************************)
(* The .string and .mat directives                                         *)
(***************************************************************************)
ValidString(l) ==
  /\ l.kind = "string"
  /\ ~l.junk
  /\ \A i \in 1..Len(l.vals) : isalnum(l.vals[i]) \/ isspace(l.vals[i])
\* the words vs are appended to the data image at the addresses DC, DC+1, ...
\* and DC is advanced by their number
DataAppended(vs) ==
  /\ data_memory' = data_memory \o [k \in 1..Len(vs) |-> [value |-> vs[k], address |-> DC + k - 1]]
  /\ DC' = DC + Len(vs)

\* C24: a valid .string directive with the characters c1..cn appends the
\* codes of c1..cn and a 0 word, n+1 words, at the data addresses DC..DC+n
\* and advances DC by n+1.
C24_StringAppended ==
  [][(ReadsLine /\ ValidString(NextLine)) => DataAppended(NextLine.vals \o <<0>>)]_vars

\* C24 as amended: the same, whenever memory_usage + n + 1 is at most the
\* memory capacity before the line.
C24_StringAppendedWhenFits ==
  [][(ReadsLine /\ ValidString(NextLine)
        /\ memory_usage + Len(NextLine.vals) + 1 <= MEMORY_AVAILABLE_SPACE)
       => DataAppended(NextLine.vals \o <<0>>)]_vars

\* the string "HI" has been stored after another data line as three words
C24_StringStored ==
  /\ pc = "first_pass"
  /\ am_file_line >= 2
  /\ am_file[am_file_line] = Str("S", <<72, 73>>, FALSE)
  /\ DC > 3
  /\ Len(data_memory) = DC
  /\ data_memory[DC - 2] = [value |-> 72, address |-> DC - 3]
  /\ data_memory[DC - 1] = [value |-> 73, address |-> DC - 2]
  /\ data_memory[DC] = [value |-> 0, address |-> DC - 1]

\* a valid string has been read with too little memory left for it
C24_StringCutByMemory ==
  /\ pc = "first_pass"
  /\ am_file_line >= 1
  /\ ValidString(am_file[am_file_line])
  /\ data_memory # <<>>
  /\ data_memory[Len(data_memory)].value # 0
  /\ errors # <<>> /\ errors[Len(errors)].code = 103


\* the error codes a .mat line can be refused with
MatErrorCodes == {103, 123, 136, 137}
MatRejected == NewErrorCodes \cap MatErrorCodes # {}
MatPadded(l) ==
  l.vals \o [i \in 1..(l.rows * l.cols - Len(l.vals)) |-> 0]

\* C25: a .mat [rows][cols] v1,...,vk directive is accepted only if rows > 0,
\* cols > 0 and k <= rows*cols; an accepted one appends v1..vk and
\* rows*cols - k zero words, rows*cols words in all; one with k > rows*cols
\* is rejected with an error and appends nothing.
C25_MatAcceptedAndPadded ==
  [][(ReadsLine /\ NextLine.kind = "mat")
       => /\ ~MatRejected
               => /\ NextLine.rows > 0
                  /\ NextLine.cols > 0
                  /\ Len(NextLine.vals) <= NextLine.rows * NextLine.cols
                  /\ DataAppended(MatPadded(NextLine))
          /\ Len(NextLine.vals) > NextLine.rows * NextLine.cols
               => /\ MatRejected
                  /\ data_memory' = data_memory
                  /\ DC' = DC]_vars

\* the line .mat [-1][-2] 5 has been read first, without an error, and is
\* stored as the two words 5 and 0
C25_NegativeSizeAccepted ==
  /\ pc = "first_pass"
  /\ am_file_line = 1
  /\ am_file[1] = MatLine(NoName, -1, -2, <<5>>)
  /\ errors = <<>>
  /\ ~first_pass_error
  /\ data_memory = <<[value |-> 5, address |-> 0], [value |-> 0, address |-> 1]>>

\* the same after every line but for memory_usage + rows*cols above the
\* capacity and negative sizes
C25_MatAcceptedAndPaddedWhenFits ==
  [][(ReadsLine /\ NextLine.kind = "mat"
        /\ NextLine.rows >= 0 /\ NextLine.cols >= 0
        /\ memory_usage + NextLine.rows * NextLine.cols <= MEMORY_AVAILABLE_SPACE)
       => /\ ~MatRejected
               => /\ NextLine.rows > 0
                  /\ NextLine.cols > 0
                  /\ Len(NextLine.vals) <= NextLine.rows * NextLine.cols
                  /\ DataAppended(MatPadded(NextLine))
          /\ Len(NextLine.vals) > NextLine.rows * NextLine.cols
               => /\ MatRejected
                  /\ data_memory' = data_memory
                  /\ DC' = DC]_vars

(***************************************************************************)
(* The line count of a macro                                               *)
(***************************************************************************)
\* the step reads a macro definition and adds it to the table
AddsMacro == pc = "preproc" /\ Len(macros') = Len(macros) + 1
NewMacro == macros'[Len(macros')]
\* the step reads the mcro line at as_pos and ends after the mcroend line,
\* at as_pos' - 1: the source lines strictly between the two
BodyLinesRead == as_pos' - as_pos - 2

\* C26: the line count stored with a macro is the number of body lines
\* between its mcro line and its mcroend line, both excluded.
C26_LineCountIsBodyLines ==
  [][AddsMacro => NewMacro.lines = BodyLinesRead]_vars

\* what is stored counts the mcroend line as well (and the newline left
\* over from a mcro line of MAX_LINE_LEN-1 characters)
C26_LineCountIsBodyLinesPlusOne ==
  [][AddsMacro => NewMacro.lines = BodyLinesRead + 1 + (IF as_file[as_pos].long THEN 1 ELSE 0)]_vars

\* the macro of the first four lines, mcro A / two body lines / mcroend, is
\* in the table with the line count 3
C26_TwoLineBodyCountsThree ==
  /\ Len(as_file) >= 4
  /\ as_file[1] = Mcro("A", FALSE)
  /\ FirstTok(as_file[2]) # "mcroend" /\ ~as_file[2].long
  /\ FirstTok(as_file[3]) # "mcroend" /\ ~as_file[3].long
  /\ as_file[4] = Mcroend(FALSE)
  /\ run = 1
  /\ macros # <<>>
  /\ macros[1].name = "A"
  /\ Len(macros[1].content) = 2
  /\ macros[1].lines = 3

(***************************************************************************)
(* Two source files in one run                                             *)
(***************************************************************************)
\* the second file of the run has the text of the first and is assembled
SecondFileAssembled == run = 2 /\ first_run.kept /\ pc = "cleanup"

\* C27: the result of assembling a source file is the same whether it is
\* the only file of the run or comes after another file: the second file of
\* a run ends with the symbol table, the images, the fix-ups, the list of
\* external uses, the line map, the macro table, the counters and the error
\* flags that the same text gave as the first file.
C27_SameResultAfterAnotherFile ==
  SecondFileAssembled => FileResult = first_run.result

\* every field of the context is reset when the preprocessor starts on a file
C27_ContextResetBeforeEachFile ==
  (pc = "preproc" /\ as_pos = 1 /\ ~as_partial)
    => /\ labels = <<>> /\ instruction_memory = <<>> /\ data_memory = <<>>
       /\ address_update_requests = <<>> /\ external_labels = <<>>
       /\ macros = <<>> /\ lines_maper = <<>>
       /\ IC = 0 /\ DC = 0 /\ memory_usage = 0
       /\ ~preproc_error /\ ~first_pass_error /\ ~second_pass_error /\ ~global_error
       /\ as_file_line = 0 /\ am_file_line = 0 /\ second_pass_error_line = 0

\* every list is empty after free_all_memory
C27_ListsEmptyAfterCleanup ==
  pc = "done"
    => /\ labels = <<>> /\ instruction_memory = <<>> /\ data_memory = <<>>
       /\ address_update_requests = <<>> /\ external_labels = <<>>
       /\ macros = <<>> /\ lines_maper = <<>>

\* the label of the line .extern X has is_entry set in one assembly of the
\* text and clear in the other
C27_EntryFlagDiffers ==
  /\ SecondFileAssembled
  /\ as_file = <<Extern("X")>>
  /\ Len(labels) = 1
  /\ Len(first_run.result.labels) = 1
  /\ labels[1].is_entry # first_run.result.labels[1].is_entry
  /\ files # first_run.result.files

\* the same result but for the is_entry fields, which add_label leaves
\* uninitialised, and what depends on them
EntryFlagsCleared(r) ==
  [r EXCEPT !.labels = [i \in DOMAIN r.labels |-> [r.labels[i] EXCEPT !.is_entry = FALSE]],
            !.files = r.files \ {"ent"},
            !.errors = <<>>, !.ret = <<>>, !.second_pass_error = FALSE,
            !.second_pass_error_line = 0]
C27_SameResultButEntryFlags ==
  SecondFileAssembled => EntryFlagsCleared(FileResult) = EntryFlagsCleared(first_run.result)

(***************************************************************************)
(* What a line that fails leaves behind                                    *)
(***************************************************************************)
\* the errors of the statement of the line, not of its label
LABEL_ERROR_CODES == {145, 164}
StatementErrorCodes == NewErrorCodes \ LABEL_ERROR_CODES
\* the step reads an instruction line and its statement is refused
InstructionFails == ReadsLine /\ NextLine.kind = "instr" /\ StatementErrorCodes # {}
IsPrefix(s, t) == Len(s) <= Len(t) /\ SubSeq(t, 1, Len(s)) = s

\* C28: when an instruction line reports a user error in the first pass, IC,
\* memory_usage, the code image and the request list are what they were
\* before the line, and no label is committed for the line.
C28_FailedInstructionLeavesNothing ==
  [][InstructionFails
       => /\ IC' = IC
          /\ memory_usage' = memory_usage
          /\ instruction_memory' = instruction_memory
          /\ address_update_requests' = address_update_requests
          /\ labels' = labels]_vars

\* what holds of a failed line whose operands are well formed: no label is
\* committed; an error other than memory full leaves IC, memory_usage and
\* the code image as they were, and one other than memory full and immediate
\* out of range leaves the request list as it was; after immediate out of
\* range the requests made for the operands before it are appended; after
\* memory full the words that fitted are appended, IC counts them,
\* memory_usage is one past the capacity and the requests of the line are
\* appended.
WellFormedFailedInstructionLeavesNoLabel ==
  [][InstructionFails
       => /\ labels' = labels
          /\ IsPrefix(address_update_requests, address_update_requests')
          /\ 103 \notin StatementErrorCodes
               => /\ IC' = IC
                  /\ memory_usage' = memory_usage
                  /\ instruction_memory' = instruction_memory
          /\ StatementErrorCodes \cap {103, 143} = {}
               => address_update_requests' = address_update_requests
          /\ 103 \in StatementErrorCodes
               => /\ IsPrefix(instruction_memory, instruction_memory')
                  /\ Len(instruction_memory') = Len(instruction_memory)
                                                  + (MEMORY_AVAILABLE_SPACE - memory_usage)
                  /\ IC' = Len(instruction_memory')
                  /\ memory_usage' = MEMORY_AVAILABLE_SPACE + 1]_vars

\* a labelled line with a matrix operand that names no register has been
\* read: the error is printed and flagged, and the line is encoded from the
\* unfilled operand struct, stored, and its label committed
C28_LabelCommittedAfterFormatError ==
  /\ pc = "first_pass"
  /\ am_file_line >= 1
  /\ am_file[am_file_line].kind = "instr"
  /\ am_file[am_file_line].label = "L"
  /\ operand_format_errors(parsed_operands(am_file[am_file_line])) # <<>>
  /\ errors # <<>> /\ errors[Len(errors)].code = 110
  /\ first_pass_error
  /\ is_label_defined("L", labels)
  /\ Len(instruction_memory) > am_file_line - 1
  /\ IC = Len(instruction_memory)

\* a labelled line with a direct operand and an immediate out of range has
\* failed: its request is in the list, its label is not in the table
C28_RequestLeftByFailedLine ==
  /\ pc = "first_pass"
  /\ am_file_line >= 1
  /\ am_file[am_file_line].kind = "instr"
  /\ am_file[am_file_line].label = "L"
  /\ errors # <<>> /\ errors[Len(errors)].code = 143
  /\ address_update_requests # <<>>
  /\ Len(instruction_memory) = am_file_line - 1
  /\ ~is_label_defined("L", labels)

\* a labelled line has failed for lack of memory with a part of its words
\* stored
C28_WordsLeftByFailedLine ==
  /\ pc = "first_pass"
  /\ am_file_line >= 1
  /\ am_file[am_file_line].kind = "instr"
  /\ am_file[am_file_line].label = "L"
  /\ errors # <<>> /\ errors[Len(errors)].code = 103
  /\ Len(instruction_memory) = MEMORY_AVAILABLE_SPACE
  /\ memory_usage = MEMORY_AVAILABLE_SPACE + 1
  /\ ~is_label_defined("L", labels)

\* the step reads a .data, .string or .mat line and the directive is refused
DirectiveFails ==
  ReadsLine /\ NextLine.kind \in {"data", "string", "mat"} /\ StatementErrorCodes # {}
\* the values a directive line asks to store
DirectiveValues(l) ==
  CASE l.kind = "string" -> l.vals \o <<0>>
    [] l.kind = "mat"    -> MatPadded(l)
    [] OTHER             -> l.vals
InWord(v) == WORD_MIN <= v /\ v <= WORD_MAX

\* C29: when handle_data_directives_line fails on a .data, .string or .mat
\* line, DC, memory_usage and the data image are what they were before the
\* line, and no label is committed for the line.
C29_FailedDirectiveLeavesNothing ==
  [][DirectiveFails
       => /\ DC' = DC
          /\ memory_usage' = memory_usage
          /\ data_memory' = data_memory
          /\ labels' = labels]_vars

\* C29 as amended: no label is committed; after a format error DC,
\* memory_usage and the data image are what they were; after a value out of
\* range or memory full the values of the list before the first one that is
\* out of range or finds the memory full are appended at DC, DC+1, ... and DC
\* and memory_usage are advanced by their number.
C29_FailedDirectiveKeepsValuesBefore ==
  [][DirectiveFails
       => /\ labels' = labels
          /\ StatementErrorCodes \cap {103, 123} = {}
               => /\ DC' = DC
                  /\ memory_usage' = memory_usage
                  /\ data_memory' = data_memory
          /\ StatementErrorCodes \cap {103, 123} # {}
               => /\ DC' - DC \in 0..(Len(DirectiveValues(NextLine)) - 1)
                  /\ DataAppended(SubSeq(DirectiveValues(NextLine), 1, DC' - DC))
                  /\ memory_usage' = memory_usage + (DC' - DC)
                  /\ \A i \in 1..(DC' - DC) : InWord(DirectiveValues(NextLine)[i])
                  /\ 123 \in StatementErrorCodes
                       => ~InWord(DirectiveValues(NextLine)[DC' - DC + 1])
                  /\ 103 \in StatementErrorCodes
                       => memory_usage' = MEMORY_AVAILABLE_SPACE]_vars

\* the line D: .data 1, 512 has been read first: the word 1 is stored, the
\* error is that of the value out of range, and D is not in the table
C29_ValueStoredBeforeRangeError ==
  /\ pc = "first_pass"
  /\ am_file_line = 1
  /\ am_file[1] = Data("D", <<1, WORD_MAX + 1>>)
  /\ errors # <<>> /\ errors[Len(errors)].code = 123
  /\ data_memory = <<[value |-> 1, address |-> 0]>>
  /\ DC = 1 /\ memory_usage = 1
  /\ first_pass_error
  /\ ~is_label_defined("D", labels)

(***************************************************************************)
(* The out-of-memory error                                                 *)
(***************************************************************************)
OutOfMemoryReports == {i \in DOMAIN errors : errors[i].code = 103}

\* C30: once the first pass has reported the out-of-memory error for a
\* source, it does not report it again for that source, whatever lines
\* follow: the error is printed at most once.
C30_OutOfMemoryReportedOnce == Cardinality(OutOfMemoryReports) <= 1

\* the out-of-memory error has been reported for a data directive and again
\* for the line after it
C30_OutOfMemoryReportedTwice ==
  /\ pc = "first_pass"
  /\ am_file_line >= 2
  /\ am_file[am_file_line - 1].kind \in {"data", "string", "mat"}
  /\ Len(errors) >= 2
  /\ errors[Len(errors) - 1].code = 103
  /\ errors[Len(errors) - 1].line = am_file_line - 1
  /\ errors[Len(errors)].code = 103
  /\ errors[Len(errors)].line = am_file_line

\* once an instruction line has reported it, memory_usage is past the limit
\* and no line reports it again
C30_NoReportPastTheLimit ==
  [][(ReadsLine /\ memory_usage > MEMORY_AVAILABLE_SPACE) => 103 \notin NewErrorCodes]_vars
=============================================================================
